---- MODULE Spec2Model ----
(***************************************************************************)
(* Baton Rouge housing-and-health scripts: the paginated municipal fetcher  *)
(* (baton_rouge_data_pulls.py) and the ACS table pipeline                   *)
(* (baton_rouge_acs_housing.py, social_isolation_analyzer.py).              *)
(*                                                                         *)
(* Spec is the fetcher: a collector pages through its three endpoints.     *)
(* SpecTables is the table pipeline: a long, a wide or an indicator table  *)
(* is given and reshaped, extended with derived indicators, and scored.    *)
(***************************************************************************)
EXTENDS Integers, Sequences, FiniteSets, TLC

(***************************************************************************)
(* Bounds of the model.                                                    *)
(***************************************************************************)
\* largest max_rows a collector is constructed with
MaxRowsBound == 5
\* largest batch_limit a collector is constructed with
MaxBatchBound == 3
\* rows an endpoint may return beyond the $limit it was asked for
MaxOverReturn == 1
\* rows of a long table
MaxLongRows == 2
\* columns of the mapping a wide table may lack
MaxMissing == 1
\* largest count in a cell of a wide table
MaxVal == 2
\* rows of an indicator table
MaxRiskRows == 2
\* times calculate_derived_indicators is applied to a table
MaxDeriveRuns == 2

\* rows of a table a collector of the framework returns
MaxRecords == 1

\* data sources a user configuration switches off
MaxDisabled == 1

\* keys a user configuration gives in the analysis_options group
MaxUserKeys == 1
MaxPoints == 2
MaxPolygons == 2
MaxBoundaries == 2
MaxExtraMatches == 1
MaxWholeTract == 2

VARIABLES
    \* ---- BatonRougeDataCollector --------------------------------------
    max_rows,       \* self.max_rows
    batch_limit,    \* self.batch_limit
    ds,             \* position of collect_all_datasets in api_endpoints (1-based)
    datasets,       \* collect_all_datasets: name -> table (sequence of rows)
    pc,             \* "idle" | "paging" | "returned" | "finished"
    offset,         \* collect_api_data locals
    total_rows,
    more_data,
    broke,          \* the except branch was taken (break)
    all_data,       \* list of pages, a page is a sequence of rows
    result,         \* the table collect_api_data returns
    log,            \* history: one record per request of the current call
    honoured,       \* history: no page so far held more rows than its $limit
    broken          \* history: endpoints whose paging ended on a transport error

VARIABLES
    \* ---- the ACS table pipeline ---------------------------------------
    stage,          \* "off" | "long" | "wide" | "derived" | "indicators" |
                    \* "scored" | "raised"
    long,           \* the long table given to transform_to_wide_format, <<>>
                    \* once a later operation has run
    tbl,            \* the table the last operation returned (or was given)
    prev,           \* history: the table the last operation was applied to
    err,            \* the exception the last operation raised, or "none"
    lastop,         \* history: "none" | "transform" | "derive" | "risk"
    nderive         \* history: applications of calculate_derived_indicators

VARIABLES
    \* ---- BatonRougeSocialIsolationFramework ----------------------------
    user_config,      \* the configuration file: [kind, groups]
    config,           \* self.config: group -> key -> value
    phase,            \* "off" | "constructed" | "collected" | "joined" |
                      \* "analyzed" | "reported" | "saved" | "returned" | "raised"
    collected_data,   \* self.collected_data: source -> table or dict of tables
    analysis_results, \* self.analysis_results
    spatial_data,     \* self.spatial_data
    data_gaps,        \* analysis_results['policy_recommendations']['data_gaps']
    summary,          \* what run_comprehensive_analysis returned
    trail,            \* history: phases started and finished, summaries built
    returned,         \* history: source -> what its collector returned
    raised            \* history: sources whose try block raised

fetchVars == <<max_rows, batch_limit, ds, datasets, pc, offset, total_rows,
               more_data, broke, all_data, result, log, honoured, broken>>

tableVars == <<stage, long, tbl, prev, err, lastop, nderive>>

frameVars == <<user_config, config, phase, collected_data, analysis_results,
               spatial_data, data_gaps, summary, trail, returned, raised>>

VARIABLES
    \* ---- BatonRougeDataCollector.perform_spatial_joins ------------------
    join_pc,          \* "off" | "called" | "returned" | "summarised"
    gdf,              \* the point dataset of spatial_datasets: locations
    census_tracts,    \* the tract polygons: [key, area]
    zip_codes,        \* the ZIP code polygons: [key, area]
    joined_datasets,  \* the joined rows: [point, geometry, tract_id, zip_code]
    summaries         \* the summary tables: name -> rows [key, count]

joinVars == <<join_pc, gdf, census_tracts, zip_codes, joined_datasets, summaries>>

VARIABLES
    \* ---- CouncilDistrictMapper.create_tract_council_crosswalk ----------
    map_pc,           \* "off" | "called" | "returned" | "raised"
    council_sources,  \* what each council district source delivers: [raises, rows]
    tract_download,   \* what pygris.tracts delivers: [raises, rows]
    spatial_join,     \* what gpd.sjoin of tracts and districts does: [raises, extra]
    output_dir_ok,    \* the parent of output_dir exists
    crosswalk         \* the returned value: [table, method]

mapVars == <<map_pc, council_sources, tract_download, spatial_join, output_dir_ok,
             crosswalk>>

VARIABLES
    \* ---- tract GEOIDs: _collect_detailed_table and _clean_places_data ---
    tract_text,       \* the tract number as the health record names it:
                      \* [whole, decimals], decimals a sequence of digits
    acs_done,         \* _collect_detailed_table has built the ACS GEOID
    places_done,      \* _clean_places_data has rebuilt the GEOID
    acs_geoid,        \* df_long['GEOID'], a sequence of characters
    places_geoid      \* df['GEOID'] of the health record

geoVars == <<tract_text, acs_done, places_done, acs_geoid, places_geoid>>

VARIABLES
    \* ---- SocialIsolationAnalyzer.run_comprehensive_analysis ------------
    an_pc,            \* "off" | "called" | "acs" | "housing" | "isolation" |
                      \* "health" | "crime" | "environment" | "council" |
                      \* "returned"
    acs_outcome,      \* what the ACS collector delivers: [kind, long]
    health_outcome,   \* what the CDC PLACES requests deliver
    acs_data,         \* the local acs_data
    acs_enhanced,     \* the local acs_enhanced
    acs_with_isolation, \* the local acs_with_isolation
    results,          \* the dict results: key -> table
    csv_written       \* social_isolation_analysis.csv has been written

anVars == <<an_pc, acs_outcome, health_outcome, acs_data, acs_enhanced,
            acs_with_isolation, results, csv_written>>

vars == <<fetchVars, tableVars, frameVars, joinVars, mapVars, geoVars, anVars>>

(***************************************************************************)
(* Helpers                                                                 *)
(***************************************************************************)
Max(a, b) == IF a > b THEN a ELSE b

Min(a, b) == IF a <= b THEN a ELSE b

RECURSIVE Concat(_)
\* pd.concat(all_data, ignore_index=True): the pages' rows in order
Concat(pages) ==
    IF pages = <<>> THEN <<>> ELSE Head(pages) \o Concat(Tail(pages))

\* self.api_endpoints, in insertion order
api_endpoints == <<"blight", "permits", "crime">>

\* the rows an endpoint serves for $offset=o when it answers with n rows:
\* row i of the remote dataset is identified by its position i
PageRows(o, n) == [i \in 1..n |-> o + i]

(***************************************************************************)
(* Table cells: a float64 cell is NaN, +inf, -inf or the rational n/d      *)
(***************************************************************************)
NaN == [k |-> "nan", n |-> 0, d |-> 1]
PInf == [k |-> "inf", n |-> 1, d |-> 1]
NInf == [k |-> "inf", n |-> -1, d |-> 1]

Abs(x) == IF x < 0 THEN -x ELSE x

RECURSIVE GCD(_, _)
GCD(a, b) == IF b = 0 THEN a ELSE GCD(b, a % b)

\* the number n/d (d > 0), in lowest terms
Rat(n, d) ==
    LET g == GCD(Abs(n), d)
    IN  [k |-> "num", n |-> n \div g, d |-> d \div g]

Num(n) == [k |-> "num", n |-> n, d |-> 1]

IsNaN(c) == c.k = "nan"
IsInf(c) == c.k = "inf"
IsNum(c) == c.k = "num"

\* float addition
CellAdd(a, b) ==
    IF IsNaN(a) \/ IsNaN(b) THEN NaN
    ELSE IF IsInf(a) /\ IsInf(b) THEN (IF a.n = b.n THEN a ELSE NaN)
    ELSE IF IsInf(a) THEN a
    ELSE IF IsInf(b) THEN b
    ELSE Rat(a.n * b.d + b.n * a.d, a.d * b.d)

RECURSIVE SumSkipNa(_)
\* df[cols].sum(axis=1) of one row: NaN cells are skipped
SumSkipNa(cells) ==
    IF cells = <<>> THEN Num(0)
    ELSE IF IsNaN(Head(cells)) THEN SumSkipNa(Tail(cells))
    ELSE CellAdd(Head(cells), SumSkipNa(Tail(cells)))

\* cell > 0 (False for NaN)
CellGtZero(c) == (IsNum(c) \/ IsInf(c)) /\ c.n > 0

\* numerator / denominator * 100 for a denominator > 0 and a numerator
\* that is not NaN
DivTimes100(a, b) ==
    IF IsInf(a) /\ IsInf(b) THEN NaN
    ELSE IF IsInf(a) THEN a
    ELSE IF IsInf(b) THEN Num(0)
    ELSE Rat(100 * a.n * b.d, a.d * b.n)

\* a DataFrame: its column names and its rows; a row carries its GEOID and
\* NAME and the cells of the other columns
EmptyFrame == [cols |-> {}, rows |-> <<>>]

IdCols == {"GEOID", "NAME"}

ValueCols(df) == df.cols \ IdCols

\* DataFrame.empty: no rows or no columns
IsEmpty(df) == df.rows = <<>> \/ df.cols = {}

\* df[name] = cells (one cell per row)
AddColumn(df, name, cells) ==
    [cols |-> df.cols \cup {name},
     rows |-> [i \in 1..Len(df.rows) |->
                 [df.rows[i] EXCEPT !.v =
                     [c \in (DOMAIN df.rows[i].v) \cup {name} |->
                         IF c = name THEN cells[i] ELSE df.rows[i].v[c]]]]]

TablesOff ==
    /\ stage = "off"
    /\ long = <<>>
    /\ tbl = EmptyFrame
    /\ prev = EmptyFrame
    /\ err = "none"
    /\ lastop = "none"
    /\ nderive = 0

(***************************************************************************)
(* BatonRougeACSCollector.create_variable_mapping                          *)
(***************************************************************************)
MappingPairs ==
    { <<"B01003_001", "Total_Population">>,
      <<"B02001_002", "White_Alone">>,
      <<"B02001_003", "Black_Alone">>,
      <<"B02001_005", "Asian_Alone">>,
      <<"B03003_003", "Hispanic_Latino">>,
      <<"B19013_001", "Median_Household_Income">>,
      <<"B19001_002", "Income_Under_10K">>,
      <<"B19001_003", "Income_10K_15K">>,
      <<"B19001_004", "Income_15K_20K">>,
      <<"B19001_005", "Income_20K_25K">>,
      <<"B19001_006", "Income_25K_30K">>,
      <<"B19001_007", "Income_30K_35K">>,
      <<"B19001_008", "Income_35K_40K">>,
      <<"B19001_009", "Income_40K_45K">>,
      <<"B19001_010", "Income_45K_50K">>,
      <<"B19001_011", "Income_50K_60K">>,
      <<"B19001_012", "Income_60K_75K">>,
      <<"B19001_013", "Income_75K_100K">>,
      <<"B19001_014", "Income_100K_125K">>,
      <<"B19001_015", "Income_125K_150K">>,
      <<"B19001_016", "Income_150K_200K">>,
      <<"B19001_017", "Income_200K_Plus">>,
      <<"B19101_001", "Total_Families">>,
      <<"B19101_017", "Family_Income_200K_Plus">>,
      <<"B17001_001", "Total_Pop_Poverty_Status">>,
      <<"B17001_002", "Below_Poverty_Level">>,
      <<"B17001_003", "Below_Poverty_Male_Total">>,
      <<"B17001_004", "Below_Poverty_Male_Under_5">>,
      <<"B17001_005", "Below_Poverty_Male_5">>,
      <<"B17001_006", "Below_Poverty_Male_6_11">>,
      <<"B17001_007", "Below_Poverty_Male_12_14">>,
      <<"B17001_008", "Below_Poverty_Male_15">>,
      <<"B17001_009", "Below_Poverty_Male_16_17">>,
      <<"B17001_017", "Below_Poverty_Female_Total">>,
      <<"B17001_018", "Below_Poverty_Female_Under_5">>,
      <<"B17001_019", "Below_Poverty_Female_5">>,
      <<"B17001_020", "Below_Poverty_Female_6_11">>,
      <<"B17001_021", "Below_Poverty_Female_12_14">>,
      <<"B17001_022", "Below_Poverty_Female_15">>,
      <<"B17001_023", "Below_Poverty_Female_16_17">>,
      <<"B17001_031", "Above_Poverty_Level">>,
      <<"B17017_001", "Total_Households_Poverty_Status">>,
      <<"B17017_002", "Below_Poverty_Households">>,
      <<"B17017_010", "Above_Poverty_Households">>,
      <<"B25119_001", "Median_Household_Income_All_Tenure">>,
      <<"B25119_002", "Median_Income_Owner_Occupied">>,
      <<"B25119_003", "Median_Income_Renter_Occupied">>,
      <<"B11001_001", "Total_Households">>,
      <<"B11001_002", "Family_Households">>,
      <<"B11001_003", "Family_Married_Couple">>,
      <<"B11001_004", "Family_Male_No_Wife">>,
      <<"B11001_005", "Family_Female_No_Husband">>,
      <<"B11001_007", "Nonfamily_Households">>,
      <<"B11001_008", "Nonfamily_Living_Alone">>,
      <<"B11001_009", "Nonfamily_Not_Alone">>,
      <<"B11005_001", "Total_Households_Children_Status">>,
      <<"B11005_002", "Households_With_Children_Under_18">>,
      <<"B11005_011", "Households_No_Children_Under_18">>,
      <<"B09002_001", "Total_Own_Children_Under_18">>,
      <<"B09002_002", "Children_In_Married_Couple_Families">>,
      <<"B09002_009", "Children_In_Single_Father_Families">>,
      <<"B09002_015", "Children_In_Single_Mother_Families">>,
      <<"B09001_001", "Total_Pop_Under_18">>,
      <<"B09001_002", "Pop_Under_3">>,
      <<"B09001_003", "Pop_3_4">>,
      <<"B09001_004", "Pop_5">>,
      <<"B09001_005", "Pop_6_11">>,
      <<"B09001_006", "Pop_12_14">>,
      <<"B09001_007", "Pop_15_17">>,
      <<"B25115_001", "Total_Occupied_Units_Size">>,
      <<"B25115_002", "Owner_1_Person">>,
      <<"B25115_003", "Owner_2_Person">>,
      <<"B25115_004", "Owner_3_Person">>,
      <<"B25115_005", "Owner_4_Person">>,
      <<"B25115_006", "Owner_5_Person">>,
      <<"B25115_007", "Owner_6_Person">>,
      <<"B25115_008", "Owner_7_Plus_Person">>,
      <<"B25115_010", "Renter_1_Person">>,
      <<"B25115_011", "Renter_2_Person">>,
      <<"B25115_012", "Renter_3_Person">>,
      <<"B25115_013", "Renter_4_Person">>,
      <<"B25115_014", "Renter_5_Person">>,
      <<"B25115_015", "Renter_6_Person">>,
      <<"B25115_016", "Renter_7_Plus_Person">>,
      <<"B25001_001", "Total_Housing_Units">>,
      <<"B25002_001", "Total_Housing_Units_Check">>,
      <<"B25002_002", "Occupied_Units">>,
      <<"B25002_003", "Vacant_Units">>,
      <<"B25003_001", "Total_Occupied_Units">>,
      <<"B25003_002", "Owner_Occupied">>,
      <<"B25003_003", "Renter_Occupied">>,
      <<"B25077_001", "Median_Home_Value">>,
      <<"B25064_001", "Median_Gross_Rent">>,
      <<"B25024_002", "Single_Family_Detached">>,
      <<"B25024_003", "Single_Family_Attached">>,
      <<"B25024_004", "Units_2">>,
      <<"B25024_005", "Units_3_4">>,
      <<"B25024_006", "Units_5_9">>,
      <<"B25024_007", "Units_10_19">>,
      <<"B25024_008", "Units_20_49">>,
      <<"B25024_009", "Units_50_Plus">>,
      <<"B25024_010", "Mobile_Home">>,
      <<"B25024_011", "Other_Housing_Type">>,
      <<"B25034_002", "Built_2020_Later">>,
      <<"B25034_003", "Built_2010_2019">>,
      <<"B25034_004", "Built_2000_2009">>,
      <<"B25034_005", "Built_1990_1999">>,
      <<"B25034_006", "Built_1980_1989">>,
      <<"B25034_007", "Built_1970_1979">>,
      <<"B25034_008", "Built_1960_1969">>,
      <<"B25034_009", "Built_1950_1959">>,
      <<"B25034_010", "Built_1940_1949">>,
      <<"B25034_011", "Built_1939_Earlier">>,
      <<"B25041_002", "No_Bedroom">>,
      <<"B25041_003", "One_Bedroom">>,
      <<"B25041_004", "Two_Bedrooms">>,
      <<"B25041_005", "Three_Bedrooms">>,
      <<"B25041_006", "Four_Bedrooms">>,
      <<"B25041_007", "Five_Plus_Bedrooms">>,
      <<"B25053_002", "Owner_Costs_Under_300">>,
      <<"B25053_003", "Owner_Costs_300_599">>,
      <<"B25053_004", "Owner_Costs_600_999">>,
      <<"B25053_005", "Owner_Costs_1000_1499">>,
      <<"B25053_006", "Owner_Costs_1500_1999">>,
      <<"B25053_007", "Owner_Costs_2000_2999">>,
      <<"B25053_008", "Owner_Costs_3000_Plus">>,
      <<"B25070_007", "Rent_Burden_30_34_Pct">>,
      <<"B25070_008", "Rent_Burden_35_39_Pct">>,
      <<"B25070_009", "Rent_Burden_40_49_Pct">>,
      <<"B25070_010", "Rent_Burden_50_Plus_Pct">>,
      <<"S2503_C01_001", "S2503_Total_Occupied_Units">>,
      <<"S2503_C01_013", "S2503_Median_Household_Income">>,
      <<"S2503_C01_014", "S2503_Housing_Costs_Under_300">>,
      <<"S2503_C01_015", "S2503_Housing_Costs_300_499">>,
      <<"S2503_C01_016", "S2503_Housing_Costs_500_799">>,
      <<"S2503_C01_017", "S2503_Housing_Costs_800_999">>,
      <<"S2503_C01_018", "S2503_Housing_Costs_1000_1499">>,
      <<"S2503_C01_019", "S2503_Housing_Costs_1500_1999">>,
      <<"S2503_C01_020", "S2503_Housing_Costs_2000_2499">>,
      <<"S2503_C01_021", "S2503_Housing_Costs_2500_2999">>,
      <<"S2503_C01_022", "S2503_Housing_Costs_3000_Plus">>,
      <<"S2503_C01_024", "S2503_Median_Housing_Costs">>,
      <<"S2503_C01_028", "S2503_Cost_Burden_30_Plus_Under_20K">>,
      <<"S2503_C01_032", "S2503_Cost_Burden_30_Plus_20K_35K">>,
      <<"S2503_C01_036", "S2503_Cost_Burden_30_Plus_35K_50K">>,
      <<"S2503_C01_040", "S2503_Cost_Burden_30_Plus_50K_75K">>,
      <<"S2503_C01_044", "S2503_Cost_Burden_30_Plus_75K_Plus">>,
      <<"S2503_C03_001", "S2503_Total_Owner_Occupied">>,
      <<"S2503_C03_024", "S2503_Median_Owner_Costs">>,
      <<"S2503_C04_001", "S2503_Total_Renter_Occupied">>,
      <<"S2503_C04_024", "S2503_Median_Renter_Costs">> }
create_variable_mapping ==
    [c \in {p[1] : p \in MappingPairs} |->
        (CHOOSE p \in MappingPairs : p[1] = c)[2]]

\* every friendly name of the mapping
FriendlyNames == {p[2] : p \in MappingPairs}

(***************************************************************************)
(* BatonRougeACSCollector.transform_to_wide_format                         *)
(*                                                                         *)
(* A long row is [GEOID, NAME, variable, estimate]; a variable is a code   *)
(* of the mapping's form followed by a suffix ("" or a letter such as E    *)
(* or M); an estimate is the string the Census API returned, as its        *)
(* sequence of characters.                                                 *)
(***************************************************************************)
\* variable_mapping[var_code] and variable_mapping[var_code + 'E']
HasMapping(v) ==
    v.sfx \in {"", "E"} /\ v.code \in DOMAIN create_variable_mapping

\* combined_data['variable'].map(variable_mapping), for a mapped variable
variable_mapping(v) == create_variable_mapping[v.code]

Digits == {"0", "1", "2", "3", "4", "5", "6", "7", "8", "9"}

DigitVal(ch) ==
    CASE ch = "0" -> 0 [] ch = "1" -> 1 [] ch = "2" -> 2 [] ch = "3" -> 3
      [] ch = "4" -> 4 [] ch = "5" -> 5 [] ch = "6" -> 6 [] ch = "7" -> 7
      [] ch = "8" -> 8 [] ch = "9" -> 9

RECURSIVE DigitsVal(_, _)
DigitsVal(chars, acc) ==
    IF chars = <<>> THEN acc
    ELSE DigitsVal(Tail(chars), 10 * acc + DigitVal(Head(chars)))

AllDigits(chars) ==
    chars # <<>> /\ \A i \in 1..Len(chars) : chars[i] \in Digits

\* pd.to_numeric(estimate, errors='coerce') on integer literals: anything
\* that does not parse becomes NaN
to_numeric(chars) ==
    IF AllDigits(chars) THEN Num(DigitsVal(chars, 0))
    ELSE IF chars # <<>> /\ Head(chars) = "-" /\ AllDigits(Tail(chars))
         THEN Num(-DigitsVal(Tail(chars), 0))
    ELSE NaN

\* mapped_data = combined_data[combined_data['friendly_name'].notna()]
mapped_data(lt) == SelectSeq(lt, LAMBDA r : HasMapping(r.variable))

\* the pivot's group key of a mapped row: index ['GEOID', 'NAME'] and
\* columns 'friendly_name'
GroupKey(r) == <<r.GEOID, r.NAME, variable_mapping(r.variable)>>

RECURSIVE FirstValid(_, _)
\* aggfunc='first': GroupBy.first gives the first non-null estimate of the
\* group in input order, NaN when the group has none
FirstValid(rows, key) ==
    IF rows = <<>> THEN NaN
    ELSE IF GroupKey(Head(rows)) = key /\ ~IsNaN(to_numeric(Head(rows).estimate))
         THEN to_numeric(Head(rows).estimate)
    ELSE FirstValid(Tail(rows), key)

AggFirst(rows, key) == FirstValid(rows, key)

\* pivot_table(dropna=True) drops the groups whose aggregate is NaN before
\* it unstacks the friendly names into columns
KeptGroups(rows) ==
    {key \in {GroupKey(rows[i]) : i \in 1..Len(rows)} : ~IsNaN(AggFirst(rows, key))}

\* the tracts of the parish in GEOID order, each with the NAME the
\* collectors build from the tract code and the NAME the Census API gives
Tracts ==
    << [GEOID |-> "22033000100",
        built |-> "Census Tract 000100, East Baton Rouge Parish, Louisiana",
        api   |-> "Census Tract 1, East Baton Rouge Parish, Louisiana"],
       [GEOID |-> "22033000200",
        built |-> "Census Tract 000200, East Baton Rouge Parish, Louisiana",
        api   |-> "Census Tract 2, East Baton Rouge Parish, Louisiana"],
       [GEOID |-> "22033000300",
        built |-> "Census Tract 000300, East Baton Rouge Parish, Louisiana",
        api   |-> "Census Tract 3, East Baton Rouge Parish, Louisiana"] >>

RECURSIVE KeysInOrder(_)
\* the (GEOID, NAME) pairs in the sorted order of the pivot's index
KeysInOrder(ts) ==
    IF ts = <<>> THEN <<>>
    ELSE << <<Head(ts).GEOID, Head(ts).built>>, <<Head(ts).GEOID, Head(ts).api>> >>
         \o KeysInOrder(Tail(ts))

\* fillna(0)
FillNa(c) == IF IsNaN(c) THEN Num(0) ELSE c

\* pivot_table(index=['GEOID','NAME'], columns='friendly_name',
\* values='estimate', aggfunc='first').reset_index().fillna(0)
pivot_table(rows) ==
    LET kept    == KeptGroups(rows)
        columns == {key[3] : key \in kept}
        index   == SelectSeq(KeysInOrder(Tracts),
                             LAMBDA ix : \E key \in kept : key[1] = ix[1] /\ key[2] = ix[2])
        cell(ix, f) == IF <<ix[1], ix[2], f>> \in kept
                       THEN AggFirst(rows, <<ix[1], ix[2], f>>)
                       ELSE NaN
    IN  [cols |-> IdCols \cup columns,
         rows |-> [i \in 1..Len(index) |->
                     [GEOID |-> index[i][1],
                      NAME  |-> index[i][2],
                      v     |-> [f \in columns |-> FillNa(cell(index[i], f))]]]]

\* the function without its `if combined_data.empty` guard: an empty
\* DataFrame has no 'variable' column to map
transform_unguarded(combined_data) ==
    IF combined_data = <<>> THEN [df |-> EmptyFrame, err |-> "KeyError"]
    ELSE IF mapped_data(combined_data) = <<>> THEN [df |-> EmptyFrame, err |-> "none"]
    ELSE [df |-> pivot_table(mapped_data(combined_data)), err |-> "none"]

\* the function: [df, err], df being the frame returned when err = "none";
\* the empty long table is the pd.DataFrame() the collectors return
transform_to_wide_format(combined_data) ==
    IF combined_data = <<>> THEN [df |-> EmptyFrame, err |-> "none"]
    ELSE IF mapped_data(combined_data) = <<>> THEN [df |-> EmptyFrame, err |-> "none"]
    ELSE [df |-> pivot_table(mapped_data(combined_data)), err |-> "none"]

(***************************************************************************)
(* BatonRougeACSCollector.calculate_derived_indicators                     *)
(*                                                                         *)
(* The function is a sequence of guarded blocks.  A block is modelled by   *)
(* the columns its `if all(col in df.columns ...)` names and the           *)
(* assignments it makes, in order; an assignment by the column it adds,    *)
(* the columns it reads and how it combines them.                          *)
(***************************************************************************)
\* np.where((denominator > 0) & numerator.notna() & denominator.notna(),
\*          numerator / denominator * 100, default)
safe_divide_nonzero(numerator, denominator) ==
    IF ~(IsNum(denominator) /\ denominator.n = 0)
       /\ ~IsNaN(numerator) /\ ~IsNaN(denominator)
    THEN (IF CellGtZero(denominator)
          THEN DivTimes100(numerator, denominator)
          ELSE IF IsInf(denominator) THEN Num(0)
          ELSE IF IsInf(numerator) THEN [numerator EXCEPT !.n = -numerator.n]
          ELSE Rat(-100 * numerator.n * denominator.d,
                   numerator.d * (-denominator.n)))
    ELSE Num(0)

safe_divide(numerator, denominator) ==
    IF CellGtZero(denominator) /\ ~IsNaN(numerator) /\ ~IsNaN(denominator)
    THEN DivTimes100(numerator, denominator)
    ELSE Num(0)

\* df[out] = safe_divide(df[num], df[den])
Pct(out, num, den) ==
    [out |-> out, kind |-> "pct", numop |-> "col", num |-> <<num>>, den |-> den, need |-> {}]
\* df[out] = safe_divide(df[a] + df[b], df[den])
PctAdd(out, a, b, den) ==
    [out |-> out, kind |-> "pct", numop |-> "add", num |-> <<a, b>>, den |-> den, need |-> {}]
\* df[out] = safe_divide(df[cols].sum(axis=1), df[den])
PctSum(out, cols, den) ==
    [out |-> out, kind |-> "pct", numop |-> "sum", num |-> cols, den |-> den, need |-> {}]
\* df[out] = df[cols].sum(axis=1)
SumOf(out, cols) ==
    [out |-> out, kind |-> "sum", numop |-> "sum", num |-> cols, den |-> "", need |-> {}]
\* df[out] = df[col]
CopyOf(out, col) ==
    [out |-> out, kind |-> "copy", numop |-> "col", num |-> <<col>>, den |-> "", need |-> {}]
\* an assignment under a nested `if col in df.columns`
OnlyIf(cols, step) == [step EXCEPT !.need = cols]

Range(seq) == {seq[i] : i \in 1..Len(seq)}

income_cols ==
    <<"Income_Under_10K", "Income_10K_15K", "Income_15K_20K", "Income_20K_25K",
      "Income_25K_30K", "Income_30K_35K">>
middle_income_cols ==
    <<"Income_35K_40K", "Income_40K_45K", "Income_45K_50K", "Income_50K_60K",
      "Income_60K_75K", "Income_75K_100K">>
high_income_cols ==
    <<"Income_100K_125K", "Income_125K_150K", "Income_150K_200K", "Income_200K_Plus">>
child_poverty_cols ==
    <<"Below_Poverty_Male_Under_5", "Below_Poverty_Male_6_11", "Below_Poverty_Male_12_14",
      "Below_Poverty_Male_15", "Below_Poverty_Male_16_17", "Below_Poverty_Female_Under_5",
      "Below_Poverty_Female_6_11", "Below_Poverty_Female_12_14", "Below_Poverty_Female_15",
      "Below_Poverty_Female_16_17">>
multi_family_cols ==
    <<"Units_2", "Units_3_4", "Units_5_9", "Units_10_19", "Units_20_49", "Units_50_Plus">>
new_housing_cols == <<"Built_2020_Later", "Built_2010_2019", "Built_2000_2009">>
old_housing_cols ==
    <<"Built_1970_1979", "Built_1960_1969", "Built_1950_1959", "Built_1940_1949",
      "Built_1939_Earlier">>
bedroom_cols == <<"Two_Bedrooms", "Three_Bedrooms", "Four_Bedrooms", "Five_Plus_Bedrooms">>
rent_burden_cols ==
    <<"Rent_Burden_30_34_Pct", "Rent_Burden_35_39_Pct", "Rent_Burden_40_49_Pct",
      "Rent_Burden_50_Plus_Pct">>

PopulationBlock ==
    [guard |-> {"White_Alone", "Black_Alone", "Asian_Alone", "Hispanic_Latino",
                "Total_Population"},
     steps |-> << Pct("Percent_White", "White_Alone", "Total_Population"),
                  Pct("Percent_Black", "Black_Alone", "Total_Population"),
                  Pct("Percent_Asian", "Asian_Alone", "Total_Population"),
                  Pct("Percent_Hispanic", "Hispanic_Latino", "Total_Population") >>]

LowIncomeBlock ==
    [guard |-> Range(income_cols),
     steps |-> << SumOf("Low_Income_Under_35K", income_cols) >>]

MiddleIncomeBlock ==
    [guard |-> Range(middle_income_cols),
     steps |-> << SumOf("Middle_Income_35K_100K", middle_income_cols) >>]

HighIncomeBlock ==
    [guard |-> Range(high_income_cols),
     steps |-> << SumOf("High_Income_100K_Plus", high_income_cols) >>]

IncomePercentBlock ==
    [guard |-> {"Low_Income_Under_35K", "High_Income_100K_Plus", "Total_Households"},
     steps |-> << Pct("Percent_Low_Income_Under_35K", "Low_Income_Under_35K", "Total_Households"),
                  Pct("Percent_High_Income_100K_Plus", "High_Income_100K_Plus", "Total_Households") >>]

PovertyBlock ==
    [guard |-> {"Below_Poverty_Level", "Total_Pop_Poverty_Status"},
     steps |-> << Pct("Percent_Below_Poverty", "Below_Poverty_Level", "Total_Pop_Poverty_Status") >>]

HouseholdPovertyBlock ==
    [guard |-> {"Below_Poverty_Households", "Total_Households_Poverty_Status"},
     steps |-> << Pct("Percent_Households_Below_Poverty", "Below_Poverty_Households",
                      "Total_Households_Poverty_Status") >>]

ChildPovertyBlockUnchecked ==
    [guard |-> Range(child_poverty_cols),
     steps |-> << SumOf("Children_Below_Poverty", child_poverty_cols),
                  Pct("Percent_Children_Below_Poverty", "Children_Below_Poverty",
                      "Total_Pop_Under_18") >>]

ChildPovertyBlock ==
    [guard |-> Range(child_poverty_cols),
     steps |-> << SumOf("Children_Below_Poverty", child_poverty_cols),
                  OnlyIf({"Total_Pop_Under_18"},
                         Pct("Percent_Children_Below_Poverty", "Children_Below_Poverty",
                             "Total_Pop_Under_18")) >>]

FamilyHouseholdsBlock ==
    [guard |-> {"Family_Households", "Total_Households"},
     steps |-> << Pct("Percent_Family_Households", "Family_Households", "Total_Households") >>]

SinglePersonBlock ==
    [guard |-> {"Nonfamily_Living_Alone", "Total_Households"},
     steps |-> << Pct("Percent_Single_Person_Households", "Nonfamily_Living_Alone",
                      "Total_Households") >>]

HouseholdsWithChildrenBlock ==
    [guard |-> {"Households_With_Children_Under_18", "Total_Households_Children_Status"},
     steps |-> << Pct("Percent_Households_With_Children", "Households_With_Children_Under_18",
                      "Total_Households_Children_Status") >>]

ChildrenMarriedBlock ==
    [guard |-> {"Children_In_Married_Couple_Families", "Total_Own_Children_Under_18"},
     steps |-> << Pct("Percent_Children_Married_Couple", "Children_In_Married_Couple_Families",
                      "Total_Own_Children_Under_18") >>]

ChildrenSingleParentBlock ==
    [guard |-> {"Children_In_Single_Mother_Families", "Children_In_Single_Father_Families",
                "Total_Own_Children_Under_18"},
     steps |-> << PctAdd("Percent_Children_Single_Parent", "Children_In_Single_Mother_Families",
                         "Children_In_Single_Father_Families", "Total_Own_Children_Under_18") >>]

OccupancyBlock ==
    [guard |-> {"Occupied_Units", "Vacant_Units", "Total_Housing_Units"},
     steps |-> << Pct("Percent_Occupied", "Occupied_Units", "Total_Housing_Units"),
                  Pct("Percent_Vacant", "Vacant_Units", "Total_Housing_Units") >>]

TenureBlock ==
    [guard |-> {"Owner_Occupied", "Renter_Occupied", "Total_Occupied_Units"},
     steps |-> << Pct("Percent_Owner_Occupied", "Owner_Occupied", "Total_Occupied_Units"),
                  Pct("Percent_Renter_Occupied", "Renter_Occupied", "Total_Occupied_Units") >>]

SingleFamilyBlock ==
    [guard |-> {"Single_Family_Detached", "Single_Family_Attached", "Total_Housing_Units"},
     steps |-> << PctAdd("Percent_Single_Family", "Single_Family_Detached",
                         "Single_Family_Attached", "Total_Housing_Units") >>]

MultiFamilyBlock ==
    [guard |-> Range(multi_family_cols) \cup {"Total_Housing_Units"},
     steps |-> << SumOf("Multi_Family_All_Units", multi_family_cols),
                  Pct("Percent_Multi_Family_All", "Multi_Family_All_Units", "Total_Housing_Units") >>]

NewHousingBlock ==
    [guard |-> Range(new_housing_cols) \cup {"Total_Housing_Units"},
     steps |-> << PctSum("Percent_Built_2000_Plus", new_housing_cols, "Total_Housing_Units") >>]

OldHousingBlock ==
    [guard |-> Range(old_housing_cols) \cup {"Total_Housing_Units"},
     steps |-> << PctSum("Percent_Built_Pre_1980", old_housing_cols, "Total_Housing_Units") >>]

BedroomBlock ==
    [guard |-> Range(bedroom_cols) \cup {"Total_Housing_Units"},
     steps |-> << SumOf("Two_Plus_Bedroom_Units", bedroom_cols),
                  Pct("Percent_Two_Plus_Bedrooms", "Two_Plus_Bedroom_Units", "Total_Housing_Units") >>]

RentBurdenBlock ==
    [guard |-> Range(rent_burden_cols) \cup {"Renter_Occupied"},
     steps |-> << SumOf("High_Rent_Burden_30_Plus_Units", rent_burden_cols),
                  CopyOf("High_Rent_Burden_50_Plus_Units", "Rent_Burden_50_Plus_Pct"),
                  Pct("Percent_High_Rent_Burden_30_Plus", "High_Rent_Burden_30_Plus_Units",
                      "Renter_Occupied"),
                  Pct("Percent_High_Rent_Burden_50_Plus", "High_Rent_Burden_50_Plus_Units",
                      "Renter_Occupied") >>]

\* the blocks in the order of the function body
DerivedBlocks ==
    << PopulationBlock, LowIncomeBlock, MiddleIncomeBlock, HighIncomeBlock,
       IncomePercentBlock, PovertyBlock, HouseholdPovertyBlock, ChildPovertyBlock,
       FamilyHouseholdsBlock, SinglePersonBlock, HouseholdsWithChildrenBlock,
       ChildrenMarriedBlock, ChildrenSingleParentBlock, OccupancyBlock, TenureBlock,
       SingleFamilyBlock, MultiFamilyBlock, NewHousingBlock, OldHousingBlock,
       BedroomBlock, RentBurdenBlock >>

\* the columns an assignment reads
Reads(step) ==
    Range(step.num) \cup (IF step.kind = "pct" THEN {step.den} ELSE {})

\* the numerator (or the whole value, for a sum or a copy) an assignment
\* computes from the cells v of one row
StepOperand(step, v) ==
    CASE step.numop = "col" -> v[step.num[1]]
      [] step.numop = "add" -> CellAdd(v[step.num[1]], v[step.num[2]])
      [] step.numop = "sum" -> SumSkipNa([i \in 1..Len(step.num) |-> v[step.num[i]]])

StepValue(step, v) ==
    IF step.kind = "pct" THEN safe_divide(StepOperand(step, v), v[step.den])
    ELSE StepOperand(step, v)

\* one assignment on the frame st = [cols, rows, err]: reading a column the
\* frame does not have raises KeyError
ApplyStep(st, step) ==
    IF st.err # "none" \/ ~(step.need \subseteq st.cols) THEN st
    ELSE IF ~(Reads(step) \subseteq st.cols) THEN [st EXCEPT !.err = "KeyError"]
    ELSE LET df == AddColumn(st, step.out,
                             [i \in 1..Len(st.rows) |-> StepValue(step, st.rows[i].v)])
         IN  [cols |-> df.cols, rows |-> df.rows, err |-> "none"]

RECURSIVE ApplySteps(_, _)
ApplySteps(st, steps) ==
    IF steps = <<>> THEN st
    ELSE ApplySteps(ApplyStep(st, Head(steps)), Tail(steps))

RECURSIVE ApplyBlocks(_, _)
\* if all(col in df.columns for col in [...]): the block's assignments
ApplyBlocks(st, blocks) ==
    IF blocks = <<>> THEN st
    ELSE ApplyBlocks(IF st.err = "none" /\ Head(blocks).guard \subseteq st.cols
                     THEN ApplySteps(st, Head(blocks).steps)
                     ELSE st,
                     Tail(blocks))

\* df.replace([np.inf, -np.inf, np.nan], 0), one cell
ReplaceNonFinite(c) == IF IsNaN(c) \/ IsInf(c) THEN Num(0) ELSE c

\* the function: [df, err], df being the frame returned when err = "none"
calculate_derived_indicators(wide_data) ==
    LET st == ApplyBlocks([cols |-> wide_data.cols, rows |-> wide_data.rows,
                           err |-> "none"], DerivedBlocks)
    IN  IF st.err # "none" THEN [df |-> EmptyFrame, err |-> st.err]
        ELSE [df  |-> [cols |-> st.cols,
                       rows |-> [i \in 1..Len(st.rows) |->
                                   [st.rows[i] EXCEPT !.v =
                                       [c \in DOMAIN st.rows[i].v |->
                                           ReplaceNonFinite(st.rows[i].v[c])]]]],
              err |-> "none"]

(***************************************************************************)
(* SocialIsolationAnalyzer.develop_isolation_risk_model                    *)
(*                                                                         *)
(* Means are exact rationals; a standard deviation is the square root of   *)
(* the exact sample variance rounded down to 1/Scale, and a z-score is     *)
(* rounded to the nearest 1/Scale.                                         *)
(***************************************************************************)
Scale == 10 * 10 * 10

RECURSIVE ISqrtBetween(_, _, _)
\* the largest r in lo..hi with r * r <= n
ISqrtBetween(n, lo, hi) ==
    IF lo >= hi THEN lo
    ELSE LET mid == (lo + hi + 1) \div 2
         IN  IF mid * mid <= n THEN ISqrtBetween(n, mid, hi)
             ELSE ISqrtBetween(n, lo, mid - 1)

ISqrt(n) == ISqrtBetween(n, 0, Min(n, 40000))

\* a + (-b)
CellSub(a, b) == CellAdd(a, [b EXCEPT !.n = -b.n])

\* the cells of one column, top to bottom
ColumnCells(df, c) == [i \in 1..Len(df.rows) |-> df.rows[i].v[c]]

NonNull(cells) == SelectSeq(cells, LAMBDA c : ~IsNaN(c))

\* total / n, a non-finite total is kept
Over(total, n) == IF ~IsNum(total) THEN total ELSE Rat(total.n, total.d * n)

MeanValid(valid) == IF valid = <<>> THEN NaN ELSE Over(SumSkipNa(valid), Len(valid))

\* Series.mean(): NaN cells are skipped, NaN when none is left
Mean(cells) == MeanValid(NonNull(cells))

Square(dv) == Rat(dv.n * dv.n, dv.d * dv.d)

SquaredDeviations(valid, m) == [i \in 1..Len(valid) |-> Square(CellSub(valid[i], m))]

\* the exact sample variance (ddof=1) of finite cells, at least two of them
Variance(valid) ==
    Over(SumSkipNa(SquaredDeviations(valid, MeanValid(valid))), Len(valid) - 1)

\* the square root to three decimals, a positive variance has a positive
\* root; to whole numbers for a variance too large to scale in 32 bits
RootOf(var) ==
    IF var.n = 0 THEN Num(0)
    ELSE IF var.n <= 2147483647 \div (Scale * Scale)
         THEN Rat(Max(1, ISqrt((var.n * Scale * Scale) \div var.d)), Scale)
    ELSE Num(Max(1, ISqrt(var.n \div var.d)))

StdValid(valid) ==
    IF Len(valid) < 2 THEN NaN
    ELSE IF \E i \in 1..Len(valid) : IsInf(valid[i]) THEN NaN
    ELSE RootOf(Variance(valid))

\* Series.std(): NaN for fewer than two values or for an infinite value
Std(cells) == StdValid(NonNull(cells))

\* dv / std_val rounded to three decimals
Quotient(dv, std_val) ==
    Rat((2 * dv.n * std_val.d * Scale + dv.d * std_val.n) \div (2 * dv.d * std_val.n),
        Scale)

\* (df[factor] - mean_val) / std_val, one cell, for std_val > 0
ZScore(x, mean_val, std_val) ==
    IF IsNaN(x) THEN NaN ELSE Quotient(CellSub(x, mean_val), std_val)

housing_risk_factors ==
    <<"Housing_Cost_Burden_Rate", "Old_Housing_Rate", "Overcrowding_Rate",
      "Mobile_Home_Rate", "Housing_Vacancy_Rate">>
demographic_risk_factors ==
    <<"Elderly_Living_Alone_Rate", "Single_Person_Household_Rate",
      "Language_Isolation_Rate", "Disability_Rate", "No_Vehicle_Rate">>
\* the economic list naming columns the indicator steps do create
economic_factors_created == <<"Old_Housing_Rate", "Housing_Vacancy_Rate">>

economic_risk_factors ==
    <<"Poverty_Rate", "Unemployment_Rate", "No_Internet_Rate">>

\* f"{factor}_std"
StdName(factor) ==
    CASE factor = "Housing_Cost_Burden_Rate" -> "Housing_Cost_Burden_Rate_std"
      [] factor = "Old_Housing_Rate" -> "Old_Housing_Rate_std"
      [] factor = "Overcrowding_Rate" -> "Overcrowding_Rate_std"
      [] factor = "Mobile_Home_Rate" -> "Mobile_Home_Rate_std"
      [] factor = "Housing_Vacancy_Rate" -> "Housing_Vacancy_Rate_std"
      [] factor = "Elderly_Living_Alone_Rate" -> "Elderly_Living_Alone_Rate_std"
      [] factor = "Single_Person_Household_Rate" -> "Single_Person_Household_Rate_std"
      [] factor = "Language_Isolation_Rate" -> "Language_Isolation_Rate_std"
      [] factor = "Disability_Rate" -> "Disability_Rate_std"
      [] factor = "No_Vehicle_Rate" -> "No_Vehicle_Rate_std"
      [] factor = "Poverty_Rate" -> "Poverty_Rate_std"
      [] factor = "Unemployment_Rate" -> "Unemployment_Rate_std"
      [] factor = "No_Internet_Rate" -> "No_Internet_Rate_std"

\* the (factor_group, factors) pairs in the order of the loop
FactorGroups ==
    << [name |-> "Housing_Risk", factors |-> housing_risk_factors],
       [name |-> "Demographic_Risk", factors |-> demographic_risk_factors],
       [name |-> "Economic_Risk", factors |-> economic_risk_factors] >>

risk_components == <<"Housing_Risk", "Demographic_Risk", "Economic_Risk">>

\* [c for c in names if c in df.columns]
Available(names, df) == SelectSeq(names, LAMBDA c : c \in df.cols)

\* the standardized column without the test of std_val
StandardizedAlways(cells) ==
    [i \in 1..Len(cells) |-> ZScore(cells[i], Mean(cells), Std(cells))]

\* if std_val > 0: the z-scores, else: 0
StandardizedWith(cells, mean_val, std_val) ==
    IF CellGtZero(std_val)
    THEN [i \in 1..Len(cells) |-> ZScore(cells[i], mean_val, std_val)]
    ELSE [i \in 1..Len(cells) |-> Num(0)]

Standardized(cells) == StandardizedWith(cells, Mean(cells), Std(cells))

RECURSIVE StandardizeAll(_, _)
\* for factor in available_factors: df[factor_std] = ...
StandardizeAll(df, factors) ==
    IF factors = <<>> THEN df
    ELSE StandardizeAll(
            AddColumn(df, StdName(Head(factors)),
                      Standardized(ColumnCells(df, Head(factors)))),
            Tail(factors))

\* df[cols].sum(axis=1) in the place of the mean
RowSums(df, cols) ==
    [i \in 1..Len(df.rows) |-> SumSkipNa([j \in 1..Len(cols) |-> df.rows[i].v[cols[j]]])]

\* df[cols].mean(axis=1)
RowMeans(df, cols) ==
    [i \in 1..Len(df.rows) |-> Mean([j \in 1..Len(cols) |-> df.rows[i].v[cols[j]]])]

\* std_factors = [f"{f}_std" for f in available_factors]
StdNames(factors) == [j \in 1..Len(factors) |-> StdName(factors[j])]

\* df[factor_group] = df[std_factors].mean(axis=1)
GroupMean(scored, factor_group, std_factors) ==
    AddColumn(scored, factor_group, RowMeans(scored, std_factors))

\* one pass of the loop over the factor groups
ScoreGroup(df, factor_group, available_factors) ==
    IF available_factors = <<>> THEN df
    ELSE GroupMean(StandardizeAll(df, available_factors), factor_group,
                   StdNames(available_factors))

RECURSIVE ScoreGroups(_, _)
\* the loop over the factor groups
ScoreGroups(df, groups) ==
    IF groups = <<>> THEN df
    ELSE ScoreGroups(ScoreGroup(df, Head(groups).name,
                                Available(Head(groups).factors, df)),
                     Tail(groups))

\* the labels of pd.cut, a category cell holds the position of its label
RiskLabels == <<"Low Risk", "Moderate Risk", "High Risk">>

Label(i) == [k |-> "cat", n |-> i, d |-> 1]

\* the same bins closed on the left (right=False)
cut_left_closed(x) ==
    IF IsNaN(x) THEN NaN
    ELSE IF IsInf(x) THEN (IF x.n < 0 THEN Label(1) ELSE NaN)
    ELSE IF 2 * x.n < -x.d THEN Label(1)
    ELSE IF 2 * x.n < x.d THEN Label(2)
    ELSE Label(3)

\* pd.cut(x, bins=[-inf, -0.5, 0.5, inf], labels=[...]): right-closed bins
cut(x) ==
    IF IsNaN(x) THEN NaN
    ELSE IF IsInf(x) THEN (IF x.n > 0 THEN Label(3) ELSE NaN)
    ELSE IF 2 * x.n <= -x.d THEN Label(1)
    ELSE IF 2 * x.n <= x.d THEN Label(2)
    ELSE Label(3)

\* df['Risk_Category'] = pd.cut(df['Social_Isolation_Risk_Index'], ...)
Categorized(df, index) ==
    AddColumn(AddColumn(df, "Social_Isolation_Risk_Index", index),
              "Risk_Category", [i \in 1..Len(index) |-> cut(index[i])])

\* if available_components: ...
RiskIndex(df, available_components) ==
    IF available_components = <<>> THEN df
    ELSE Categorized(df, RowMeans(df, available_components))

Scored(df) == RiskIndex(df, Available(risk_components, df))

\* the function: [df, err]
develop_isolation_risk_model(combined_data) ==
    IF IsEmpty(combined_data) THEN [df |-> combined_data, err |-> "none"]
    ELSE [df |-> Scored(ScoreGroups(combined_data, FactorGroups)), err |-> "none"]

(***************************************************************************)
(* calculate_risk_scores of social_isolation_example.py: the same scoring  *)
(* without the test of the standard deviation and without <factor>_std     *)
(* columns                                                                 *)
(***************************************************************************)
\* the (factor_group, factors) pairs of the loop, the lists spelled out
ExampleFactorGroups ==
    << [name |-> "Housing_Risk",
        factors |-> <<"High_Housing_Cost_Burden_Rate", "Old_Housing_Rate",
                      "Mobile_Home_Rate", "Renter_Rate">>],
       [name |-> "Demographic_Risk",
        factors |-> <<"Elderly_Living_Alone_Rate", "Single_Person_Household_Rate",
                      "Language_Isolation_Rate", "Disability_Rate",
                      "No_Vehicle_Rate">>],
       [name |-> "Health_Risk",
        factors |-> <<"Depression_Rate", "Poor_Mental_Health_Rate",
                      "No_Routine_Checkup_Rate", "No_Dental_Visit_Rate">>] >>

\* (factor_data - factor_data.mean()) / factor_data.std(), one column: the
\* division by a standard deviation of 0 or NaN gives NaN
ExampleStandardized(cells, mean_val, std_val) ==
    [i \in 1..Len(cells) |->
        IF CellGtZero(std_val) THEN ZScore(cells[i], mean_val, std_val) ELSE NaN]

\* result[factor_group] = standardized.mean(axis=1)
ExampleGroup(frame, factor_group, available_factors) ==
    IF available_factors = <<>> THEN frame
    ELSE AddColumn(frame, factor_group,
            [i \in 1..Len(frame.rows) |->
                Mean([j \in 1..Len(available_factors) |->
                        ExampleStandardized(
                            ColumnCells(frame, available_factors[j]),
                            Mean(ColumnCells(frame, available_factors[j])),
                            Std(ColumnCells(frame, available_factors[j])))[i]])])

RECURSIVE ExampleGroups(_, _)
ExampleGroups(frame, groups) ==
    IF groups = <<>> THEN frame
    ELSE ExampleGroups(ExampleGroup(frame, Head(groups).name,
                                    Available(Head(groups).factors, frame)),
                       Tail(groups))

\* the same scoring with the bins of the categories closed on the left
risk_scores_left_closed(df) ==
    [df  |-> IF Available(<<"Housing_Risk", "Demographic_Risk", "Health_Risk">>,
                          ExampleGroups(df, ExampleFactorGroups)) = <<>>
             THEN ExampleGroups(df, ExampleFactorGroups)
             ELSE AddColumn(
                     RiskIndex(ExampleGroups(df, ExampleFactorGroups),
                               Available(<<"Housing_Risk", "Demographic_Risk",
                                           "Health_Risk">>,
                                         ExampleGroups(df, ExampleFactorGroups))),
                     "Risk_Category",
                     [i \in 1..Len(df.rows) |->
                        cut_left_closed(
                           RiskIndex(ExampleGroups(df, ExampleFactorGroups),
                                     Available(<<"Housing_Risk", "Demographic_Risk",
                                                 "Health_Risk">>,
                                               ExampleGroups(df, ExampleFactorGroups))
                                    ).rows[i].v["Social_Isolation_Risk_Index"])]),
     err |-> "none"]

\* the function: [df, err]
calculate_risk_scores(df) ==
    [df  |-> RiskIndex(ExampleGroups(df, ExampleFactorGroups),
                       Available(<<"Housing_Risk", "Demographic_Risk", "Health_Risk">>,
                                 ExampleGroups(df, ExampleFactorGroups))),
     err |-> "none"]

(***************************************************************************)
(* BatonRougeSocialIsolationFramework                                      *)
(*                                                                         *)
(* A table is [kind |-> "frame", rows |-> n]: what the framework reads of  *)
(* a DataFrame is its number of rows.  A dict of tables is                 *)
(* [kind |-> "dict", parts |-> <<[name, rows], ...>>], and a dict result   *)
(* of the report phase is [kind |-> "report"].  The four component modules *)
(* are taken to import, so every collector object exists.                  *)
(***************************************************************************)
Frame(n) == [kind |-> "frame", rows |-> n, parts |-> <<>>]
Part(name, n) == [name |-> name, rows |-> n]
Dict(parts) == [kind |-> "dict", rows |-> 0, parts |-> parts]
Report == [kind |-> "report", rows |-> 0, parts |-> <<>>]

\* d[k] = v
Put(d, k, v) == [x \in (DOMAIN d) \cup {k} |-> IF x = k THEN v ELSE d[x]]

\* the groups of default_config that hold switches
default_config ==
    ("data_sources" :>
        [k \in {"census_acs", "municipal_data", "health_outcomes",
                "environmental_data", "crime_analysis", "spatial_crosswalks"} |-> TRUE])
    @@
    ("analysis_options" :>
        [k \in {"include_spatial", "calculate_risk_scores", "create_composite_indices",
                "generate_visualizations", "save_intermediate_results"} |->
            k # "generate_visualizations"])

\* _load_configuration: default_config.update(user_config) for a file that
\* exists and parses, the defaults otherwise
load_configuration(file) ==
    IF file.kind = "parsed"
    THEN [g \in (DOMAIN default_config) \cup (DOMAIN file.groups) |->
             IF g \in DOMAIN file.groups THEN file.groups[g] ELSE default_config[g]]
    ELSE default_config

\* the sources of _collect_all_data in the order of its blocks
CollectSources ==
    <<"census_acs", "municipal_data", "health_outcomes", "environmental_data",
      "crime_analysis">>

\* the key of collected_data a source is stored under
EntryOf(s) ==
    CASE s = "census_acs" -> "acs_data"
      [] s = "health_outcomes" -> "health_data"
      [] OTHER -> s

\* what the except branch of a source stores
EmptyOf(s) ==
    IF s \in {"municipal_data", "environmental_data"} THEN Dict(<<>>) ELSE Frame(0)

\* what the collaborator of a source does when it is called: it raises, or
\* it returns data
Outcomes(s) ==
    {[raises |-> TRUE, data |-> EmptyOf(s)]}
    \cup
    {[raises |-> FALSE, data |-> d] : d \in
        CASE s = "census_acs" ->
                {Dict(<<Part("housing", 1), Part("demographic", 1),
                        Part("income", 1), Part("household", 1)>>)}
          [] s = "municipal_data" ->
                {Dict(<<>>), Dict(<<Part("crime", 1)>>),
                 Dict(<<Part("blight", 1), Part("crime", 1)>>)}
          [] s = "environmental_data" ->
                {Dict(<<Part("air_quality", n), Part("noise", 0),
                        Part("green_space", 0)>>) : n \in 0..MaxRecords}
          [] s = "spatial_crosswalks" -> {Frame(1)}
          [] OTHER -> {Frame(n) : n \in 0..MaxRecords}}

\* 'Crime' in self.collected_data['municipal_data']
HasDataset(data, name) ==
    /\ "municipal_data" \in DOMAIN data
    /\ \E i \in 1..Len(data["municipal_data"].parts) :
          data["municipal_data"].parts[i].name = name

\* one block of _collect_all_data on st = [data, returned, raised, err]; o
\* is what the collaborator does.  The ACS block always ends in its except
\* branch: BatonRougeACSCollector has no method combine_all_datasets.
CollectStep(st, s, o) ==
    IF st.err # "none" THEN st
    ELSE IF s \notin DOMAIN config["data_sources"] THEN [st EXCEPT !.err = "KeyError"]
    ELSE IF ~config["data_sources"][s] THEN st
    ELSE IF s = "crime_analysis" /\ ~HasDataset(st.data, "Crime")
    THEN [st EXCEPT !.data = Put(@, "crime_analysis", Frame(0))]
    ELSE IF o.raises \/ s = "census_acs"
    THEN [st EXCEPT !.data = Put(@, EntryOf(s), EmptyOf(s)),
                    !.raised = @ \cup {s},
                    !.returned = IF o.raises THEN @ ELSE Put(@, s, o.data)]
    ELSE [st EXCEPT !.data = Put(@, EntryOf(s), o.data),
                    !.returned = Put(@, s, o.data)]

RECURSIVE CollectFrom(_, _, _)
CollectFrom(st, sources, out) ==
    IF sources = <<>> THEN st
    ELSE CollectFrom(CollectStep(st, Head(sources), out[Head(sources)]),
                     Tail(sources), out)

\* the events a phase adds to the history
Started(ph) == <<[ev |-> "start", ph |-> ph]>>
Finished(ph) == <<[ev |-> "end", ph |-> ph]>>
Built(ph) == <<[ev |-> "summary", ph |-> ph]>>

\* Phase 1: self._collect_all_data()
CollectAllData ==
    /\ phase = "constructed"
    /\ \E a \in Outcomes("census_acs"), m \in Outcomes("municipal_data"),
          h \in Outcomes("health_outcomes"), e \in Outcomes("environmental_data"),
          c \in Outcomes("crime_analysis") :
          LET st == CollectFrom([data |-> collected_data, returned |-> returned,
                                 raised |-> raised, err |-> "none"],
                                CollectSources,
                                ("census_acs" :> a) @@ ("municipal_data" :> m)
                                @@ ("health_outcomes" :> h)
                                @@ ("environmental_data" :> e)
                                @@ ("crime_analysis" :> c))
          IN  /\ collected_data' = st.data
              /\ returned' = st.returned
              /\ raised' = st.raised
              /\ phase' = IF st.err = "none" THEN "collected" ELSE "raised"
              /\ trail' = trail \o Started("collect")
                                \o (IF st.err = "none" THEN Finished("collect") ELSE <<>>)
    /\ UNCHANGED <<user_config, config, analysis_results, spatial_data, data_gaps, summary>>
    /\ UNCHANGED <<fetchVars, tableVars, joinVars, mapVars, geoVars, anVars>>

\* self.collected_data.get('acs_data', pd.DataFrame())
AcsData ==
    IF "acs_data" \in DOMAIN collected_data THEN collected_data["acs_data"] ELSE Frame(0)

\* the try block of _perform_spatial_analysis: [spatial, raised]
SpatialTry(o) ==
    IF o.raises THEN [spatial |-> spatial_data, raised |-> raised \cup {"spatial_crosswalks"}]
    ELSE [spatial |->
            IF /\ "include_spatial" \in DOMAIN config["analysis_options"]
               /\ config["analysis_options"]["include_spatial"]
               /\ AcsData.rows > 0
            THEN Put(Put(spatial_data, "tract_council_crosswalk", o.data),
                     "tract_geometries", Frame(AcsData.rows))
            ELSE Put(spatial_data, "tract_council_crosswalk", o.data),
          raised |-> raised]

\* Phase 2: self._perform_spatial_analysis()
PerformSpatialAnalysis ==
    /\ phase = "collected"
    /\ IF "spatial_crosswalks" \notin DOMAIN config["data_sources"]
       THEN /\ phase' = "raised"
            /\ trail' = trail \o Started("spatial")
            /\ UNCHANGED <<spatial_data, raised>>
       ELSE /\ phase' = "joined"
            /\ trail' = trail \o Started("spatial") \o Finished("spatial")
            /\ IF config["data_sources"]["spatial_crosswalks"]
               THEN \E o \in Outcomes("spatial_crosswalks") :
                        /\ spatial_data' = SpatialTry(o).spatial
                        /\ raised' = SpatialTry(o).raised
               ELSE UNCHANGED <<spatial_data, raised>>
    /\ UNCHANGED <<user_config, config, collected_data, analysis_results, data_gaps,
                   summary, returned>>
    /\ UNCHANGED <<fetchVars, tableVars, joinVars, mapVars, geoVars, anVars>>

\* the try block of _analyze_social_isolation on an ACS table of n rows: the
\* two indicator tables, then the risk scores (SocialIsolationAnalyzer has
\* no method calculate_risk_scores, the call raises AttributeError), then
\* the composite table
AnalysisTry(n) ==
    LET two == Put(Put(analysis_results, "housing_indicators", Frame(n)),
                   "isolation_indicators", Frame(n))
    IN  IF "calculate_risk_scores" \notin DOMAIN config["analysis_options"] THEN two
        ELSE IF config["analysis_options"]["calculate_risk_scores"] THEN two
        ELSE IF "create_composite_indices" \notin DOMAIN config["analysis_options"] THEN two
        ELSE IF config["analysis_options"]["create_composite_indices"]
        THEN Put(two, "composite_analysis", Frame(n))
        ELSE two

\* Phase 3: self._analyze_social_isolation()
AnalyzeSocialIsolation ==
    /\ phase = "joined"
    /\ analysis_results' = IF AcsData.rows > 0 THEN AnalysisTry(AcsData.rows)
                           ELSE analysis_results
    /\ phase' = "analyzed"
    /\ trail' = trail \o Started("analysis") \o Finished("analysis")
    /\ UNCHANGED <<user_config, config, collected_data, spatial_data, data_gaps,
                   summary, returned, raised>>
    /\ UNCHANGED <<fetchVars, tableVars, joinVars, mapVars, geoVars, anVars>>

\* the sources _generate_policy_recommendations appends to data_gaps: an
\* empty table, or an empty dict
IsGap(data) ==
    \/ data.kind = "frame" /\ data.rows = 0
    \/ data.kind = "dict" /\ data.parts = <<>>

\* Phase 4: self._generate_final_results(): the summary, the policy
\* recommendations and the data quality report
GenerateFinalResults ==
    /\ phase = "analyzed"
    /\ analysis_results' =
          Put(Put(Put(analysis_results, "comprehensive_summary", Report),
                  "policy_recommendations", Report),
              "data_quality_report", Report)
    /\ data_gaps' = {source \in DOMAIN collected_data : IsGap(collected_data[source])}
    /\ phase' = "reported"
    /\ trail' = trail \o Started("report") \o Finished("report")
    /\ UNCHANGED <<user_config, config, collected_data, spatial_data, summary,
                   returned, raised>>
    /\ UNCHANGED <<fetchVars, tableVars, joinVars, mapVars, geoVars, anVars>>

\* Phase 5: self._save_comprehensive_results(): the files are written and
\* the master results are built with _create_results_summary, or writing
\* raises and the except branch ends the phase
SaveComprehensiveResults ==
    /\ phase = "reported"
    /\ \E written \in BOOLEAN :
          trail' = trail \o Started("persist")
                         \o (IF written THEN Built("persist") ELSE <<>>)
                         \o Finished("persist")
    /\ phase' = "saved"
    /\ UNCHANGED <<user_config, config, collected_data, analysis_results, spatial_data,
                   data_gaps, summary, returned, raised>>
    /\ UNCHANGED <<fetchVars, tableVars, joinVars, mapVars, geoVars, anVars>>

\* sum(len(df) for df in data.values() if isinstance(df, pd.DataFrame))
RECURSIVE TotalRows(_)
TotalRows(parts) ==
    IF parts = <<>> THEN 0 ELSE Head(parts).rows + TotalRows(Tail(parts))

\* not (data.empty if isinstance(data, pd.DataFrame) else not bool(data))
Truthy(data) ==
    CASE data.kind = "frame" -> data.rows > 0
      [] data.kind = "dict" -> data.parts # <<>>
      [] OTHER -> TRUE

\* _create_results_summary
create_results_summary ==
    [data_collection_summary |->
        [source \in DOMAIN collected_data |->
            [collected |-> Truthy(collected_data[source]),
             record_count |-> IF collected_data[source].kind = "frame"
                              THEN collected_data[source].rows
                              ELSE TotalRows(collected_data[source].parts)]],
     analysis_summary |->
        [analysis \in DOMAIN analysis_results |->
            [completed |-> Truthy(analysis_results[analysis]),
             record_count |-> IF analysis_results[analysis].kind = "frame"
                              THEN analysis_results[analysis].rows
                              ELSE IF Truthy(analysis_results[analysis]) THEN 1 ELSE 0]],
     spatial_analysis_summary |->
        [spatial_name \in DOMAIN spatial_data |->
            [created |-> spatial_data[spatial_name].rows > 0,
             record_count |-> spatial_data[spatial_name].rows]]]

NoSummary ==
    [data_collection_summary |-> <<>>, analysis_summary |-> <<>>,
     spatial_analysis_summary |-> <<>>]

\* return self._create_results_summary()
ReturnSummary ==
    /\ phase = "saved"
    /\ summary' = create_results_summary
    /\ phase' = "returned"
    /\ trail' = trail \o Built("return")
    /\ UNCHANGED <<user_config, config, collected_data, analysis_results, spatial_data,
                   data_gaps, returned, raised>>
    /\ UNCHANGED <<fetchVars, tableVars, joinVars, mapVars, geoVars, anVars>>

\* the framework is not constructed
FrameOff ==
    /\ user_config = [kind |-> "absent", groups |-> <<>>]
    /\ config = default_config
    /\ phase = "off"
    /\ collected_data = <<>>
    /\ analysis_results = <<>>
    /\ spatial_data = <<>>
    /\ data_gaps = {}
    /\ summary = NoSummary
    /\ trail = <<>>
    /\ returned = <<>>
    /\ raised = {}

\* perform_spatial_joins is not called
JoinsOff ==
    /\ join_pc = "off"
    /\ gdf = <<>>
    /\ census_tracts = <<>>
    /\ zip_codes = <<>>
    /\ joined_datasets = <<>>
    /\ summaries = <<>>

\* a function that ends without a return statement returns None
None == [kind |-> "none", rows |-> 0, parts |-> <<>>]

\* no crosswalk was returned
NoCrosswalk == [table |-> None, method |-> "none"]

\* create_tract_council_crosswalk is not called
MapperOff ==
    /\ map_pc = "off"
    /\ council_sources = <<>>
    /\ tract_download = [raises |-> FALSE, rows |-> 0]
    /\ spatial_join = [raises |-> FALSE, extra |-> 0]
    /\ output_dir_ok = TRUE
    /\ crosswalk = NoCrosswalk

\* no GEOID is being derived
GeoidOff ==
    /\ tract_text = [whole |-> 0, decimals |-> <<>>]
    /\ acs_done = FALSE
    /\ places_done = FALSE
    /\ acs_geoid = <<>>
    /\ places_geoid = <<>>

AnalyzerOff ==
    /\ an_pc = "off"
    /\ acs_outcome = [kind |-> "no_connection", long |-> <<>>]
    /\ health_outcome = "empty"
    /\ acs_data = EmptyFrame
    /\ acs_enhanced = EmptyFrame
    /\ acs_with_isolation = EmptyFrame
    /\ results = <<>>
    /\ csv_written = FALSE

(***************************************************************************)
(* BatonRougeDataCollector.collect_api_data                                *)
(***************************************************************************)
\* while more_data and total_rows < self.max_rows
LoopCond == more_data /\ total_rows < max_rows

\* batch_size = min(limit, self.max_rows - total_rows)
BatchSizeUncapped == batch_limit

BatchSize == Min(batch_limit, max_rows - total_rows)

\* collect_all_datasets calls collect_api_data for the next endpoint:
\* the locals are initialised
StartCollect ==
    /\ pc = "idle"
    /\ ds <= Len(api_endpoints)
    /\ pc' = "paging"
    /\ offset' = 0
    /\ total_rows' = 0
    /\ more_data' = TRUE
    /\ broke' = FALSE
    /\ all_data' = <<>>
    /\ log' = <<>>
    /\ UNCHANGED <<max_rows, batch_limit, ds, datasets, result, honoured, broken>>
    /\ UNCHANGED <<tableVars, frameVars, joinVars, mapVars, geoVars, anVars>>

\* if len(data) < batch_size: more_data = False
EndOfDataNever(n, size) == FALSE

EndOfData(n, size) == n < size

\* offset += batch_size, and the same without the advance
NextOffsetKept == offset

NextOffset == offset + BatchSize

\* one iteration of the loop whose request succeeds with a page of n rows
PageOk(n) ==
    /\ pc = "paging"
    /\ ~broke
    /\ LoopCond
    /\ BatchSize > 0
    /\ log' = Append(log, [limit |-> BatchSize, offset |-> offset,
                           rows |-> n, exc |-> "none"])
    /\ honoured' = (honoured /\ n <= BatchSize)
    /\ IF n > 0
       THEN /\ all_data' = Append(all_data, PageRows(offset, n))
            /\ total_rows' = total_rows + n
            /\ offset' = NextOffset
            /\ more_data' = IF EndOfData(n, BatchSize) THEN FALSE ELSE more_data
       ELSE /\ more_data' = FALSE
            /\ UNCHANGED <<all_data, total_rows, offset>>
    /\ UNCHANGED <<max_rows, batch_limit, ds, datasets, pc, broke, result, broken>>
    /\ UNCHANGED <<tableVars, frameVars, joinVars, mapVars, geoVars, anVars>>

\* what the try block can raise: requests.get / raise_for_status raise a
\* requests.RequestException, pd.read_csv a pandas parser error
Exceptions == {"RequestException", "ParserError"}

\* except requests.RequestException as e
Caught(exc) == exc = "RequestException"

\* one iteration whose try block raises exc: break when the except clause
\* catches it, otherwise the exception leaves collect_api_data and
\* collect_all_datasets, which has no handler
PageFails(exc) ==
    /\ pc = "paging"
    /\ ~broke
    /\ LoopCond
    /\ BatchSize > 0
    /\ log' = Append(log, [limit |-> BatchSize, offset |-> offset,
                           rows |-> -1, exc |-> exc])
    /\ IF Caught(exc)
       THEN /\ broke' = TRUE
            /\ broken' = broken \cup {api_endpoints[ds]}
            /\ pc' = pc
       ELSE /\ pc' = "raised"
            /\ UNCHANGED <<broke, broken>>
    /\ UNCHANGED <<max_rows, batch_limit, ds, datasets, offset, total_rows,
                   more_data, all_data, result, honoured>>
    /\ UNCHANGED <<tableVars, frameVars, joinVars, mapVars, geoVars, anVars>>

\* the loop is left (condition false, batch_size <= 0, or break): combine
CombineDropsPartial ==
    IF all_data # <<>> /\ ~broke THEN Concat(all_data) ELSE <<>>

CombineBody ==
    IF all_data # <<>> THEN Concat(all_data) ELSE <<>>

Combine ==
    /\ pc = "paging"
    /\ (broke \/ ~LoopCond \/ BatchSize <= 0)
    /\ result' = CombineBody
    /\ pc' = "returned"
    /\ UNCHANGED <<max_rows, batch_limit, ds, datasets, offset, total_rows,
                   more_data, broke, all_data, log, honoured, broken>>
    /\ UNCHANGED <<tableVars, frameVars, joinVars, mapVars, geoVars, anVars>>

(***************************************************************************)
(* BatonRougeDataCollector.collect_all_datasets                            *)
(***************************************************************************)
\* datasets[name] = self.collect_api_data(url, name), then the next endpoint
StoreDataset ==
    /\ pc = "returned"
    /\ datasets' = [datasets EXCEPT ![api_endpoints[ds]] = result]
    /\ ds' = ds + 1
    /\ pc' = IF ds + 1 > Len(api_endpoints) THEN "finished" ELSE "idle"
    /\ UNCHANGED <<max_rows, batch_limit, offset, total_rows, more_data, broke,
                   all_data, result, log, honoured, broken>>
    /\ UNCHANGED <<tableVars, frameVars, joinVars, mapVars, geoVars, anVars>>

NoTable == <<-1>>

\* the collector before collect_all_datasets has run
FetchIdle ==
    /\ ds = 1
    /\ datasets = [name \in {api_endpoints[i] : i \in 1..Len(api_endpoints)} |-> NoTable]
    /\ pc = "idle"
    /\ offset = 0
    /\ total_rows = 0
    /\ more_data = TRUE
    /\ broke = FALSE
    /\ all_data = <<>>
    /\ result = <<>>
    /\ log = <<>>
    /\ honoured = TRUE
    /\ broken = {}

Init ==
    /\ TablesOff
    /\ FrameOff
    /\ JoinsOff
    /\ MapperOff
    /\ GeoidOff
    /\ AnalyzerOff
    /\ max_rows \in 0..MaxRowsBound
    /\ batch_limit \in 1..MaxBatchBound
    /\ ds = 1
    /\ datasets = [name \in {api_endpoints[i] : i \in 1..Len(api_endpoints)} |-> NoTable]
    /\ pc = "idle"
    /\ offset = 0
    /\ total_rows = 0
    /\ more_data = TRUE
    /\ broke = FALSE
    /\ all_data = <<>>
    /\ result = <<>>
    /\ log = <<>>
    /\ honoured = TRUE
    /\ broken = {}

Next ==
    \/ StartCollect
    \/ \E n \in 0..(MaxBatchBound + MaxOverReturn) :
          /\ n <= BatchSize + MaxOverReturn
          /\ PageOk(n)
    \/ \E exc \in Exceptions : PageFails(exc)
    \/ Combine
    \/ StoreDataset

Spec == Init /\ [][Next]_vars

(***************************************************************************)
(* The table pipeline as a state machine: a table is given (a long table   *)
(* to the reshaper, a wide table to the derived indicator calculator, an   *)
(* indicator table to the risk scorer) and the operations are applied in   *)
(* the order of SocialIsolationAnalyzer.run_comprehensive_analysis.        *)
(***************************************************************************)
\* acs_data = self.acs_collector.transform_to_wide_format(all_data)
Transform ==
    /\ stage = "long"
    /\ LET r == transform_to_wide_format(long)
       IN  /\ tbl' = r.df
           /\ err' = r.err
           /\ stage' = IF r.err = "none" THEN "wide" ELSE "raised"
    /\ lastop' = "transform"
    /\ UNCHANGED <<long, prev, nderive>>
    /\ UNCHANGED <<fetchVars, frameVars, joinVars, mapVars, geoVars, anVars>>

\* acs_data = self.acs_collector.calculate_derived_indicators(acs_data)
Derive ==
    /\ stage \in {"wide", "derived"}
    /\ nderive < MaxDeriveRuns
    /\ LET r == calculate_derived_indicators(tbl)
       IN  /\ tbl' = r.df
           /\ err' = r.err
           /\ stage' = IF r.err = "none" THEN "derived" ELSE "raised"
    /\ prev' = tbl
    /\ lastop' = "derive"
    /\ nderive' = nderive + 1
    /\ long' = <<>>
    /\ UNCHANGED <<fetchVars, frameVars, joinVars, mapVars, geoVars, anVars>>

\* final_analysis = self.develop_isolation_risk_model(acs_with_isolation)
RiskModel ==
    /\ stage \in {"derived", "indicators"}
    /\ LET r == develop_isolation_risk_model(tbl)
       IN  /\ tbl' = r.df
           /\ err' = r.err
           /\ stage' = IF r.err = "none" THEN "scored" ELSE "raised"
    /\ prev' = tbl
    /\ lastop' = "risk"
    /\ long' = <<>>
    /\ UNCHANGED nderive
    /\ UNCHANGED <<fetchVars, frameVars, joinVars, mapVars, geoVars, anVars>>

\* final_data = calculate_risk_scores(health_data)
ExampleScores ==
    /\ stage = "indicators"
    /\ LET r == calculate_risk_scores(tbl)
       IN  /\ tbl' = r.df
           /\ err' = r.err
           /\ stage' = "scored"
    /\ prev' = tbl
    /\ lastop' = "example"
    /\ UNCHANGED <<long, nderive>>
    /\ UNCHANGED <<fetchVars, frameVars, joinVars, mapVars, geoVars, anVars>>

(***************************************************************************)
(* The tables the pipeline is started on                                   *)
(***************************************************************************)
\* variables of the long tables: a mapped code without and with the E
\* suffix, a second mapped code, and a margin-of-error variable, which the
\* mapping does not know
LongVariables ==
    { [code |-> "B01003_001", sfx |-> ""],
      [code |-> "B01003_001", sfx |-> "E"],
      [code |-> "B25001_001", sfx |-> "E"],
      [code |-> "B25001_001", sfx |-> "M"] }

\* estimates as the API returns them: two numbers and a non-number
LongEstimates == { <<"5">>, <<"1", "2">>, <<"N", "/", "A">> }

\* the first tract under both of its names, the second under its built one
LongKeys == {KeysInOrder(Tracts)[i] : i \in 1..3}

LongRows ==
    { [GEOID |-> key[1], NAME |-> key[2], variable |-> v, estimate |-> e] :
        key \in LongKeys, v \in LongVariables, e \in LongEstimates }

\* the columns calculate_derived_indicators uses as denominators
TotalCols ==
    UNION { { DerivedBlocks[b].steps[s].den : s \in 1..Len(DerivedBlocks[b].steps) } :
            b \in 1..Len(DerivedBlocks) } \ {""}

\* integer cells and the non-finite ones
CellsOf(ints) == {NaN, PInf, NInf} \cup {Num(i) : i \in ints}

\* a total large enough to hold the sum of any group of parts
BigTotal == 12 * MaxVal

\* row i of a wide table: every part column holds p, every total column t
PartTotalRow(i, cols, p, t) ==
    [GEOID |-> Tracts[i].GEOID,
     NAME  |-> Tracts[i].built,
     v     |-> [c \in cols \ IdCols |-> IF c \in TotalCols THEN t ELSE p]]

\* the subsets of S with at most k elements
RECURSIVE SubsetsUpTo(_, _)
SubsetsUpTo(S, k) ==
    IF k = 0 THEN {{}}
    ELSE LET smaller == SubsetsUpTo(S, k - 1)
         IN  smaller \cup {m \cup {x} : m \in smaller, x \in S}

\* a wide table that lacks some columns of the mapping, with no row or one
WideTableWithout(missing, n) ==
    [cols |-> IdCols \cup (FriendlyNames \ missing),
     rows |-> [i \in 1..n |->
                 PartTotalRow(i, FriendlyNames \ missing, Num(1), Num(BigTotal))]]

\* a wide table with every column of the mapping: a row holding the part p
\* and the total t, after a row of parts 1 when two is set
WideTableOf(p, t, two) ==
    [cols |-> IdCols \cup FriendlyNames,
     rows |-> (IF two THEN << PartTotalRow(1, FriendlyNames, Num(1), Num(BigTotal)) >>
               ELSE <<>>)
              \o << PartTotalRow(2, FriendlyNames, p, t) >>]

\* a one-row wide table with every column of the mapping, parts 1 under a
\* large total, in which the single column col holds the cell c
WideTableHolding(col, c) ==
    [cols |-> IdCols \cup FriendlyNames,
     rows |-> << [PartTotalRow(1, FriendlyNames, Num(1), Num(BigTotal))
                    EXCEPT !.v[col] = c] >>]

\* the columns calculate_derived_indicators names
DerivedSources ==
    FriendlyNames \cap
    UNION { DerivedBlocks[b].guard \cup
            UNION { Reads(DerivedBlocks[b].steps[s]) \cup DerivedBlocks[b].steps[s].need :
                    s \in 1..Len(DerivedBlocks[b].steps) } :
            b \in 1..Len(DerivedBlocks) }

\* indicator tables: up to two of these columns (two housing factors, a
\* demographic and an economic factor)
RiskFamilyCols ==
    {"Old_Housing_Rate", "Mobile_Home_Rate", "Disability_Rate", "Poverty_Rate"}

RiskCells == {NaN, PInf, Num(0), Num(1)}

IndicatorTable(cs, cells) ==
    [cols |-> IdCols \cup cs,
     rows |-> [i \in 1..Len(cells) |->
                 [GEOID |-> Tracts[i].GEOID,
                  NAME  |-> Tracts[i].built,
                  v     |-> cells[i]]]]

\* the collector is constructed and never used
FetchOff ==
    /\ max_rows = 0
    /\ batch_limit = 1
    /\ FetchIdle

InitTables ==
    /\ FetchOff
    /\ FrameOff
    /\ JoinsOff
    /\ MapperOff
    /\ GeoidOff
    /\ AnalyzerOff
    /\ prev = EmptyFrame
    /\ err = "none"
    /\ nderive = 0
    /\ lastop = "none"
    /\ \/ /\ stage = "long"
          /\ \E n \in 0..MaxLongRows : long \in [1..n -> LongRows]
          /\ tbl = EmptyFrame
       \/ /\ stage = "wide"
          /\ long = <<>>
          /\ \/ tbl = EmptyFrame
             \/ \E missing \in SubsetsUpTo(DerivedSources, MaxMissing) :
                    \E n \in (IF missing = {} THEN {0, 1} ELSE {1}) :
                        tbl = WideTableWithout(missing, n)
             \/ \E p \in CellsOf(-1..MaxVal), t \in CellsOf((-1..MaxVal) \cup {BigTotal}) :
                    \E two \in BOOLEAN : tbl = WideTableOf(p, t, two)
             \/ \E col \in DerivedSources, c \in {NaN, PInf, NInf} :
                    tbl = WideTableHolding(col, c)
       \/ /\ stage = "indicators"
          /\ long = <<>>
          /\ \/ tbl = EmptyFrame
             \/ \E cs \in SubsetsUpTo(RiskFamilyCols, 2), n \in 0..MaxRiskRows :
                    \E cells \in [1..n -> [cs -> RiskCells]] :
                        tbl = IndicatorTable(cs, cells)
             \* three tracts with Old_Housing_Rate 0, 1, 2 (z-scores -1, 0, 1),
             \* alone or beside one constant indicator
             \/ \E cs \in SubsetsUpTo(RiskFamilyCols \ {"Old_Housing_Rate"}, 1) :
                    tbl = IndicatorTable(cs \cup {"Old_Housing_Rate"},
                              [i \in 1..3 |->
                                  [f \in cs \cup {"Old_Housing_Rate"} |->
                                      IF f = "Old_Housing_Rate" THEN Num(i - 1)
                                      ELSE Num(1)]])
             \* three tracts with Old_Housing_Rate 0, 1, 2 and Mobile_Home_Rate
             \* 2, 0, 1: the housing score is 0, -0.5, 0.5 in both scorers
             \/ tbl = IndicatorTable({"Old_Housing_Rate", "Mobile_Home_Rate"},
                          [i \in 1..3 |->
                              [f \in {"Old_Housing_Rate", "Mobile_Home_Rate"} |->
                                  IF f = "Old_Housing_Rate" THEN Num(i - 1)
                                  ELSE Num((i + 1) % 3)]])
             \* a table that already carries a category score, and no
             \* indicator of that category
             \/ \E c \in {PInf, NInf} :
                    tbl = IndicatorTable({"Housing_Risk"}, << [f \in {"Housing_Risk"} |-> c] >>)

NextTables == Transform \/ Derive \/ RiskModel \/ ExampleScores

SpecTables == InitTables /\ [][NextTables]_vars

(***************************************************************************)
(* The framework as a state machine: it is constructed on a configuration  *)
(* file and run_comprehensive_analysis is called once                      *)
(***************************************************************************)
\* __init__ on a configuration file: no file, a file that does not parse, or
\* a JSON object that gives one group, with some of its keys
InitFramework ==
    /\ FetchOff
    /\ TablesOff
    /\ JoinsOff
    /\ MapperOff
    /\ GeoidOff
    /\ AnalyzerOff
    /\ \/ user_config = [kind |-> "absent", groups |-> <<>>]
       \/ user_config = [kind |-> "unparseable", groups |-> <<>>]
       \/ user_config = [kind |-> "parsed", groups |-> <<>>]
       \/ \E K \in SUBSET DOMAIN default_config["data_sources"] :
             \E D \in SubsetsUpTo(K, MaxDisabled) :
                user_config = [kind |-> "parsed",
                               groups |-> ("data_sources" :> [k \in K |-> k \notin D])]
       \/ \E K \in SubsetsUpTo(DOMAIN default_config["analysis_options"], MaxUserKeys) :
             \E v \in [K -> BOOLEAN] :
                user_config = [kind |-> "parsed", groups |-> ("analysis_options" :> v)]
    /\ config = load_configuration(user_config)
    /\ phase = "constructed"
    /\ collected_data = <<>>
    /\ analysis_results = <<>>
    /\ spatial_data = <<>>
    /\ data_gaps = {}
    /\ summary = NoSummary
    /\ trail = <<>>
    /\ returned = <<>>
    /\ raised = {}

NextFramework ==
    \/ CollectAllData
    \/ PerformSpatialAnalysis
    \/ AnalyzeSocialIsolation
    \/ GenerateFinalResults
    \/ SaveComprehensiveResults
    \/ ReturnSummary

SpecFramework == InitFramework /\ [][NextFramework]_vars

(***************************************************************************)
(* BatonRougeDataCollector.perform_spatial_joins                           *)
(*                                                                         *)
(* A location is a place a point lies at; a polygon is the set of the      *)
(* locations inside it, so two polygons overlap when they share one.  The  *)
(* key of a polygon (GEOID, ZCTA5CE10) is its position in the input.       *)
(***************************************************************************)
Locations == {"north", "south"}

\* a GeoDataFrame of polygons with the given areas
Polygons(areas) == [i \in 1..Len(areas) |-> [key |-> Num(i), area |-> areas[i]]]

\* the rows of a point dataset before the joins
PointRows(geoms) ==
    [i \in 1..Len(geoms) |-> [point |-> i, geometry |-> geoms[i], GEOID |-> NaN,
                              ZCTA5CE10 |-> NaN]]

RECURSIVE MatchesFrom(_, _, _)
\* the keys of the polygons of right the geometry is within, from polygon i on
MatchesFrom(geometry, right, i) ==
    IF i > Len(right) THEN <<>>
    ELSE (IF geometry \in right[i].area THEN <<right[i].key>> ELSE <<>>)
            \o MatchesFrom(geometry, right, i + 1)

\* how='left': a left row gives one output row for each polygon it is
\* within, and one row with a null key when it is within none
LeftRows(row, m, col) ==
    IF m = <<>> THEN << [row EXCEPT ![col] = NaN] >>
    ELSE [j \in 1..Len(m) |-> [row EXCEPT ![col] = m[j]]]

RECURSIVE sjoin(_, _, _)
\* gpd.sjoin(left, right, how='left', predicate='within'), the key of the
\* right frame stored in column col
sjoin(left, right, col) ==
    IF left = <<>> THEN <<>>
    ELSE LeftRows(Head(left), MatchesFrom(Head(left).geometry, right, 1), col)
            \o sjoin(Tail(left), right, col)

\* zip_codes[zip_codes.intersects(study_area_buffer)]: the ZIP codes that
\* touch the buffered points; every ZIP code when there is no point
zip_codes_br(geoms, zips) ==
    IF geoms = <<>> THEN zips
    ELSE SelectSeq(zips, LAMBDA z : \E i \in 1..Len(geoms) : geoms[i] \in z.area)

\* tract_id and zip_code are copies of GEOID and ZCTA5CE10
Identified(rows) ==
    [i \in 1..Len(rows) |->
        [point |-> rows[i].point, geometry |-> rows[i].geometry,
         tract_id |-> rows[i].GEOID, zip_code |-> rows[i].ZCTA5CE10]]

\* the body of the loop for one dataset
perform_spatial_joins(geoms, tracts, zips) ==
    Identified(sjoin(sjoin(PointRows(geoms), tracts, "GEOID"),
                     zip_codes_br(geoms, zips), "ZCTA5CE10"))

\* the call of perform_spatial_joins
PerformSpatialJoins ==
    /\ join_pc = "called"
    /\ joined_datasets' = perform_spatial_joins(gdf, census_tracts, zip_codes)
    /\ join_pc' = "returned"
    /\ UNCHANGED <<gdf, census_tracts, zip_codes, summaries>>
    /\ UNCHANGED <<fetchVars, tableVars, frameVars, mapVars, geoVars, anVars>>

\* gdf.groupby(col).size(): the number of rows whose column col holds the
\* key; rows with a null key belong to no group
GroupSize(rows, col, key) ==
    Len(SelectSeq(rows, LAMBDA r : r[col] = key))

RECURSIVE InsertDesc(_, _)
\* row put into a table that is in descending order of count, after the
\* rows with the same count
InsertDesc(row, sorted) ==
    IF sorted = <<>> THEN <<row>>
    ELSE IF Head(sorted).count >= row.count
         THEN <<Head(sorted)>> \o InsertDesc(row, Tail(sorted))
         ELSE <<row>> \o sorted

RECURSIVE sort_values(_)
\* sort_values('total_incidents', ascending=False)
sort_values(rows) ==
    IF rows = <<>> THEN <<>>
    ELSE InsertDesc(Head(rows), sort_values(Tail(rows)))

\* tract_totals: one row for each tract of census_tracts, the count of the
\* dataset left-merged on it and filled with 0
tract_totals(joined, tracts) ==
    sort_values([i \in 1..Len(tracts) |->
                    [key |-> tracts[i].key,
                     count |-> GroupSize(joined, "tract_id", tracts[i].key)]])

\* zip_totals: one row for each ZIP code that has a group
zip_totals(joined, zips) ==
    sort_values(SelectSeq([i \in 1..Len(zips) |->
                              [key |-> zips[i].key,
                               count |-> GroupSize(joined, "zip_code", zips[i].key)]],
                          LAMBDA row : row.count > 0))

\* create_summary_tables for the one dataset
create_summary_tables(joined, tracts, zips) ==
    [tract_totals |-> tract_totals(joined, tracts),
     zip_totals |-> zip_totals(joined, zips)]

\* the call of create_summary_tables on the joined dataset
CreateSummaryTables ==
    /\ join_pc = "returned"
    /\ summaries' = create_summary_tables(joined_datasets, census_tracts, zip_codes)
    /\ join_pc' = "summarised"
    /\ UNCHANGED <<gdf, census_tracts, zip_codes, joined_datasets>>
    /\ UNCHANGED <<fetchVars, tableVars, frameVars, mapVars, geoVars, anVars>>

\* perform_spatial_joins is called on a point dataset, tracts and ZIP codes
InitJoins ==
    /\ FetchOff
    /\ TablesOff
    /\ FrameOff
    /\ MapperOff
    /\ GeoidOff
    /\ AnalyzerOff
    /\ join_pc = "called"
    /\ \E n \in 0..MaxPoints : \E g \in [1..n -> Locations] : gdf = g
    /\ \E n \in 0..MaxPolygons : \E a \in [1..n -> (SUBSET Locations) \ {{}}] :
          census_tracts = Polygons(a)
    /\ \E n \in 0..MaxPolygons : \E a \in [1..n -> (SUBSET Locations) \ {{}}] :
          zip_codes = Polygons(a)
    /\ joined_datasets = <<>>
    /\ summaries = <<>>

NextJoins == PerformSpatialJoins \/ CreateSummaryTables

SpecJoins == InitJoins /\ [][NextJoins]_vars

(***************************************************************************)
(* CouncilDistrictMapper.create_tract_council_crosswalk                    *)
(*                                                                         *)
(* What a boundary source delivers, whether the spatial join raises and    *)
(* whether the output directory can be made are given by the environment.  *)
(* The three council district sources of the repository are placeholders   *)
(* that deliver an empty frame; a source that delivers boundaries stands   *)
(* for the download each of them is the placeholder of.                    *)
(***************************************************************************)
RECURSIVE download_council_districts(_)
\* _download_council_districts: the result of the first source that does
\* not raise and is not empty, an empty frame when there is none
download_council_districts(data_sources) ==
    IF data_sources = <<>> THEN Frame(0)
    ELSE IF ~Head(data_sources).raises /\ Head(data_sources).rows > 0
         THEN Frame(Head(data_sources).rows)
         ELSE download_council_districts(Tail(data_sources))

\* _download_census_tracts: the tracts of pygris, an empty frame when the
\* import or the download raises
download_census_tracts(o) == IF o.raises THEN Frame(0) ELSE Frame(o.rows)

\* _create_spatial_crosswalk: one row for each row of the left join, an
\* empty frame when anything raises
create_spatial_crosswalk(tracts_gdf, districts_gdf, o) ==
    IF o.raises THEN Frame(0) ELSE Frame(tracts_gdf.rows + o.extra)

\* _create_enhanced_template_from_tracts: one row for each tract and the
\* instruction row
create_enhanced_template_from_tracts(tracts_gdf) == Frame(tracts_gdf.rows + 1)

sample_tracts ==
    <<"22033000100", "22033000200", "22033000300", "22033000400", "22033000500",
      "22033009700", "22033009800", "22033009900">>

\* _create_template_crosswalk: the sample tracts and the instruction row
create_template_crosswalk == Frame(Len(sample_tracts) + 1)

\* the if / elif / else of create_tract_council_crosswalk, after the output
\* directory was made
CrosswalkBranches(districts, tracts, o) ==
    IF districts.rows > 0 /\ tracts.rows > 0
    THEN IF create_spatial_crosswalk(tracts, districts, o).rows > 0
         THEN [table |-> create_spatial_crosswalk(tracts, districts, o),
               method |-> "spatial_join"]
         ELSE [table |-> None, method |-> "none"]
    ELSE IF tracts.rows > 0
    THEN [table |-> create_enhanced_template_from_tracts(tracts),
          method |-> "enhanced_template"]
    ELSE [table |-> create_template_crosswalk, method |-> "template"]

\* the call of create_tract_council_crosswalk
CreateTractCouncilCrosswalk ==
    /\ map_pc = "called"
    /\ IF output_dir_ok
       THEN /\ crosswalk' = CrosswalkBranches(download_council_districts(council_sources),
                                             download_census_tracts(tract_download),
                                             spatial_join)
            /\ map_pc' = "returned"
       ELSE /\ crosswalk' = crosswalk
            /\ map_pc' = "raised"
    /\ UNCHANGED <<council_sources, tract_download, spatial_join, output_dir_ok>>
    /\ UNCHANGED <<fetchVars, tableVars, frameVars, joinVars, geoVars, anVars>>

\* what a boundary source can deliver
SourceOutcomes ==
    {[raises |-> TRUE, rows |-> 0]} \cup {[raises |-> FALSE, rows |-> n] : n \in 0..MaxBoundaries}

\* the three sources of _download_council_districts, in order
CouncilSourceNames ==
    <<"Baton Rouge Open Data Portal", "Louisiana Secretary of State",
      "Census Bureau Electoral Districts">>

InitMapper ==
    /\ FetchOff
    /\ TablesOff
    /\ FrameOff
    /\ JoinsOff
    /\ GeoidOff
    /\ AnalyzerOff
    /\ map_pc = "called"
    /\ council_sources \in [1..Len(CouncilSourceNames) -> SourceOutcomes]
    /\ tract_download \in SourceOutcomes
    /\ \E r \in BOOLEAN, e \in 0..MaxExtraMatches :
          spatial_join = [raises |-> r, extra |-> IF r THEN 0 ELSE e]
    /\ output_dir_ok \in BOOLEAN
    /\ crosswalk = NoCrosswalk

NextMapper == CreateTractCouncilCrosswalk

SpecMapper == InitMapper /\ [][NextMapper]_vars

(***************************************************************************)
(* Tract GEOIDs                                                            *)
(*                                                                         *)
(* A string is a sequence of characters.  A float64 is [man, scale], the   *)
(* value being man / 2^scale with man a natural number of at most          *)
(* MantissaBits bits; every operation rounds its exact result to the       *)
(* nearest such number, ties to even.  A natural number that does not fit  *)
(* an integer of the model is a sequence of limbs, the most significant    *)
(* first, each below LimbBase.                                             *)
(***************************************************************************)
MantissaBits == 53
LimbBits == 20

RECURSIVE Pow2(_)
Pow2(k) == IF k = 0 THEN 1 ELSE 2 * Pow2(k - 1)

LimbBase == Pow2(LimbBits)

RECURSIVE BitLen(_)
\* the number of bits of a natural number
BitLen(n) == IF n = 0 THEN 0 ELSE 1 + BitLen(n \div 2)

\* n * 2^s as limbs, for n below 2^11
BigOfShift(n, s) ==
    << (n * Pow2(s % LimbBits)) \div LimbBase, (n * Pow2(s % LimbBits)) % LimbBase >>
        \o [i \in 1..(s \div LimbBits) |-> 0]

RECURSIVE BigDivSmall(_, _, _, _)
\* limbs divided by d, d below 2^10: [quot, rem]
BigDivSmall(r, limbs, d, acc) ==
    IF limbs = <<>> THEN [quot |-> acc, rem |-> r]
    ELSE BigDivSmall((r * LimbBase + Head(limbs)) % d, Tail(limbs), d,
                     Append(acc, (r * LimbBase + Head(limbs)) \div d))

RECURSIVE ShiftRightSmall(_, _, _, _)
\* limbs shifted right by j bits, j at most 10; carry the bits that come
\* down from the limb before
ShiftRightSmall(carry, limbs, j, acc) ==
    IF limbs = <<>> THEN acc
    ELSE ShiftRightSmall(Head(limbs) % Pow2(j), Tail(limbs), j,
                         Append(acc, (carry * LimbBase + Head(limbs)) \div Pow2(j)))

RECURSIVE BigShiftRight(_, _)
\* limbs shifted right by k bits
BigShiftRight(limbs, k) ==
    IF k = 0 \/ limbs = <<>> THEN limbs
    ELSE IF k >= LimbBits THEN BigShiftRight(SubSeq(limbs, 1, Len(limbs) - 1), k - LimbBits)
    ELSE IF k > 10 THEN BigShiftRight(ShiftRightSmall(0, limbs, 10, <<>>), k - 10)
    ELSE ShiftRightSmall(0, limbs, k, <<>>)

RECURSIVE BigInc(_)
\* limbs plus one
BigInc(limbs) ==
    IF limbs = <<>> THEN <<1>>
    ELSE IF limbs[Len(limbs)] + 1 < LimbBase
         THEN [limbs EXCEPT ![Len(limbs)] = @ + 1]
         ELSE BigInc(SubSeq(limbs, 1, Len(limbs) - 1)) \o <<0>>

RECURSIVE BigMulSmall(_, _, _)
\* limbs times c, c below 2^10
BigMulSmall(limbs, c, carry) ==
    IF limbs = <<>> THEN <<carry>>
    ELSE BigMulSmall(SubSeq(limbs, 1, Len(limbs) - 1), c,
                     (limbs[Len(limbs)] * c + carry) \div LimbBase)
            \o <<(limbs[Len(limbs)] * c + carry) % LimbBase>>

RECURSIVE BigBitLen(_)
\* the number of bits of the number the limbs hold
BigBitLen(limbs) ==
    IF limbs = <<>> THEN 0
    ELSE IF Head(limbs) = 0 THEN BigBitLen(Tail(limbs))
    ELSE BitLen(Head(limbs)) + LimbBits * (Len(limbs) - 1)

RECURSIVE BigVal(_, _)
\* the number the limbs hold, when it fits an integer of the model
BigVal(limbs, acc) ==
    IF limbs = <<>> THEN acc ELSE BigVal(Tail(limbs), acc * LimbBase + Head(limbs))

\* the k lowest bits of the limbs, k at most 10
LowBits(limbs, k) == limbs[Len(limbs)] % Pow2(k)

\* limbs / 2^k rounded to nearest, ties to even, k from 1 to 10; sticky says
\* that the limbs are themselves the floor of an inexact result
RoundShift(limbs, k, sticky) ==
    IF \/ 2 * LowBits(limbs, k) > Pow2(k)
       \/ 2 * LowBits(limbs, k) = Pow2(k) /\ sticky
       \/ 2 * LowBits(limbs, k) = Pow2(k) /\ LowBits(BigShiftRight(limbs, k), 1) = 1
    THEN BigInc(BigShiftRight(limbs, k))
    ELSE BigShiftRight(limbs, k)

RECURSIVE ExpUp(_, _, _)
\* the least e from e on with n / d < 2^e
ExpUp(n, d, e) == IF n < d * Pow2(e) THEN e ELSE ExpUp(n, d, e + 1)

RECURSIVE ExpDown(_, _, _)
\* the greatest j from j on with n * 2^j < d, for n < d
ExpDown(n, d, j) == IF n * Pow2(j + 1) < d THEN ExpDown(n, d, j + 1) ELSE j

\* the e with 2^(e-1) <= n / d < 2^e
Exponent(n, d) == IF n >= d THEN ExpUp(n, d, 1) ELSE 0 - ExpDown(n, d, 0)

FloatZero == [man |-> <<>>, scale |-> 0]

\* the quotient q of n * 2^(MantissaBits + 1 - e) by d has one bit more than
\* the significand: it is rounded to the significand
RoundedQuotient(q, e) ==
    [man |-> RoundShift(q.quot, 1, q.rem # 0), scale |-> MantissaBits - e]

\* float(text) of a decimal literal with the value n / d, n below 2^11 and d
\* below 2^10
FloatOfRatio(n, d) ==
    IF n = 0 THEN FloatZero
    ELSE RoundedQuotient(
            BigDivSmall(0, BigOfShift(n, MantissaBits + 1 - Exponent(n, d)), d, <<>>),
            Exponent(n, d))

\* the exact product p / 2^scale, rounded to the significand
RoundedProduct(p, scale) ==
    IF BigBitLen(p) <= MantissaBits THEN [man |-> p, scale |-> scale]
    ELSE [man |-> RoundShift(p, BigBitLen(p) - MantissaBits, FALSE),
          scale |-> scale - (BigBitLen(p) - MantissaBits)]

\* x * c in float64, c a natural number below 2^10
FloatTimes(x, c) ==
    IF x = FloatZero \/ c = 0 THEN FloatZero
    ELSE RoundedProduct(BigMulSmall(x.man, c, 0), x.scale)

\* astype(int): the fraction is cut off
FloatTrunc(x) == BigVal(BigShiftRight(x.man, x.scale), 0)

DigitChar(d) ==
    CASE d = 0 -> "0" [] d = 1 -> "1" [] d = 2 -> "2" [] d = 3 -> "3"
      [] d = 4 -> "4" [] d = 5 -> "5" [] d = 6 -> "6" [] d = 7 -> "7"
      [] d = 8 -> "8" [] d = 9 -> "9"

RECURSIVE StrOf(_)
\* astype(str) of a natural number
StrOf(n) ==
    IF n < 10 THEN <<DigitChar(n)>> ELSE StrOf(n \div 10) \o <<DigitChar(n % 10)>>

RECURSIVE zfill(_, _)
\* str.zfill(width)
zfill(chars, width) ==
    IF Len(chars) >= width THEN chars ELSE zfill(<<"0">> \o chars, width)

RECURSIVE Pow10(_)
Pow10(k) == IF k = 0 THEN 1 ELSE 10 * Pow10(k - 1)

\* tract_numbers[0].astype(float): the extracted text "whole.decimals" (or
\* "whole" alone) as a float64
tract_number(text) ==
    FloatOfRatio(text.whole * Pow10(Len(text.decimals)) + DigitsVal(text.decimals, 0),
                 Pow10(Len(text.decimals)))

\* df['GEOID'] = '22033' + (df['tract_number'] * 100).astype(int)
\*                            .astype(str).str.zfill(6)
PlacesGeoid(text) ==
    <<"2", "2", "0", "3", "3">>
        \o zfill(StrOf(FloatTrunc(FloatTimes(tract_number(text), 100))), 6)

\* the 6-character tract code the Census API gives for the tract: the
\* tract number in hundredths, zero-padded
TractCode(text) ==
    zfill(StrOf(text.whole * 100
                   + DigitsVal(text.decimals, 0) * Pow10(2 - Len(text.decimals))), 6)

\* df_long['GEOID'] = df_long['state'] + df_long['county'] + df_long['tract']
AcsGeoid(text) == <<"2", "2">> \o <<"0", "3", "3">> \o TractCode(text)

\* _collect_detailed_table builds the GEOID of the tract
CollectDetailedTable ==
    /\ tract_text.whole > 0 \/ tract_text.decimals # <<>>
    /\ ~acs_done
    /\ acs_geoid' = AcsGeoid(tract_text)
    /\ acs_done' = TRUE
    /\ UNCHANGED <<tract_text, places_done, places_geoid>>
    /\ UNCHANGED <<fetchVars, tableVars, frameVars, joinVars, mapVars, anVars>>

\* _clean_places_data rebuilds the GEOID from the name of the tract
CleanPlacesData ==
    /\ tract_text.whole > 0 \/ tract_text.decimals # <<>>
    /\ ~places_done
    /\ places_geoid' = PlacesGeoid(tract_text)
    /\ places_done' = TRUE
    /\ UNCHANGED <<tract_text, acs_done, acs_geoid>>
    /\ UNCHANGED <<fetchVars, tableVars, frameVars, joinVars, mapVars, anVars>>

\* a tract of the parish, its number written with at most two decimals
InitGeoid ==
    /\ FetchOff
    /\ TablesOff
    /\ FrameOff
    /\ JoinsOff
    /\ MapperOff
    /\ AnalyzerOff
    /\ \E w \in 0..MaxWholeTract, k \in 0..2 : \E dec \in [1..k -> 0..9] :
          /\ w > 0 \/ \E i \in 1..k : dec[i] > 0
          /\ tract_text = [whole |-> w, decimals |-> [i \in 1..k |-> DigitChar(dec[i])]]
    /\ acs_done = FALSE
    /\ places_done = FALSE
    /\ acs_geoid = <<>>
    /\ places_geoid = <<>>

NextGeoid == CollectDetailedTable \/ CleanPlacesData

SpecGeoid == InitGeoid /\ [][NextGeoid]_vars


(***************************************************************************)
(* Claims about the fetcher, checked under Spec                            *)
(***************************************************************************)
RECURSIVE RowsBefore(_, _)
\* rows the endpoint had delivered before request k of the current call
RowsBefore(l, k) ==
    IF k <= 1 THEN 0
    ELSE RowsBefore(l, k - 1) + (IF l[k - 1].rows > 0 THEN l[k - 1].rows ELSE 0)

\* the rows of the successful pages of a request history, in order
RECURSIVE PagesOf(_)
PagesOf(l) ==
    IF l = <<>> THEN <<>>
    ELSE (IF Head(l).rows > 0 THEN PageRows(Head(l).offset, Head(l).rows) ELSE <<>>)
         \o PagesOf(Tail(l))

\* C1: against an endpoint that never returns more rows than the $limit it
\* was asked for, the returned table has at most max_rows rows, and every
\* request asks for exactly min(batch_limit, max_rows - rows so far) rows.
C1_RowCap ==
    /\ \A k \in 1..Len(log) :
          log[k].limit = Min(batch_limit, max_rows - RowsBefore(log, k))
    /\ (honoured /\ pc = "returned") => Len(result) <= max_rows
    /\ honoured => \A i \in 1..(ds - 1) : Len(datasets[api_endpoints[i]]) <= max_rows

\* a call that returned a full table whose last request was cut to the rows
\* still missing
C1_Witness ==
    /\ pc = "returned"
    /\ honoured
    /\ max_rows > 0
    /\ Len(result) = max_rows
    /\ Len(log) >= 2
    /\ log[Len(log)].limit < batch_limit

\* C2: no request follows a page that returned fewer rows than requested
\* (zero rows included) or a row count that has reached max_rows; with
\* batch_limit 2, max_rows 5 and pages of 2, 2 and 1 rows there are exactly
\* 3 requests and 5 returned rows.
C2_StopsPaging ==
    /\ \A k \in 1..(Len(log) - 1) :
          /\ log[k].rows >= log[k].limit
          /\ RowsBefore(log, k + 1) < max_rows
    /\ ( /\ batch_limit = 2
         /\ max_rows = 5
         /\ Len(log) >= 3
         /\ <<log[1].rows, log[2].rows, log[3].rows>> = <<2, 2, 1>> )
       => /\ Len(log) = 3
          /\ ~LoopCond
          /\ pc = "returned" => Len(result) = 5

\* the scenario of pages 2, 2, 1 has returned
C2_Witness ==
    /\ pc = "returned"
    /\ batch_limit = 2
    /\ max_rows = 5
    /\ Len(log) = 3
    /\ <<log[1].rows, log[2].rows, log[3].rows>> = <<2, 2, 1>>
    /\ Len(result) = 5

\* C3: when the request for page k+1 fails with a transport error after k
\* pages succeeded, collect_api_data does not raise, issues no further
\* request, and returns exactly the rows of those k pages (an empty table
\* when k = 0); collect_all_datasets still collects the remaining endpoints.
C3_TransportError ==
    /\ \A k \in 1..Len(log) : log[k].exc # "none" => k = Len(log)
    /\ (log # <<>> /\ log[Len(log)].exc = "RequestException")
       => /\ pc # "raised"
          /\ broke
          /\ pc = "returned" => result = PagesOf(log)
          /\ pc \in {"idle", "finished"} =>
                datasets[api_endpoints[ds - 1]] = PagesOf(log)
    /\ \A i \in 1..Len(api_endpoints) :
          (api_endpoints[i] \in broken /\ i < ds)
             => datasets[api_endpoints[i]] # NoTable
    /\ (broken # {} /\ pc = "idle") => ENABLED StartCollect

\* the first endpoint failed on its third request after two pages, its two
\* pages were kept, and the last endpoint was collected all the same
C3_Witness ==
    /\ pc = "finished"
    /\ "blight" \in broken
    /\ Len(datasets["blight"]) = 4
    /\ "crime" \notin broken
    /\ Len(datasets["crime"]) > 0

\* a transport failure on the very first request returns an empty table
C3_WitnessEmpty ==
    /\ pc = "returned"
    /\ broke
    /\ Len(log) = 1
    /\ result = <<>>

(***************************************************************************)
(* Properties of transform_to_wide_format.  After Transform, long is the   *)
(* table it was given and tbl the table it returned.                       *)
(***************************************************************************)
\* the mapped rows of the input for one GEOID and one friendly name, in
\* input order
RowsFor(geoid, f) ==
    SelectSeq(mapped_data(long),
              LAMBDA r : r.GEOID = geoid /\ variable_mapping(r.variable) = f)

Parses(r) == ~IsNaN(to_numeric(r.estimate))

\* C4: the wide table returned for any long table, also one in which a
\* GEOID occurs under different NAME values, has at most one row per GEOID.
C4_OneRowPerGeoid ==
    lastop = "transform" =>
        \A i, j \in 1..Len(tbl.rows) :
            tbl.rows[i].GEOID = tbl.rows[j].GEOID => i = j

\* C5: when several long rows share a (GEOID, friendly name) pair, the wide
\* cell holds the value of the first of them in input order, whatever it is:
\* the number it parses to, and 0 when it does not parse.
C5_FirstInInputOrder ==
    lastop = "transform" =>
        \A i \in 1..Len(tbl.rows) : \A f \in ValueCols(tbl) :
            LET same == RowsFor(tbl.rows[i].GEOID, f)
            IN  same # <<>> =>
                    tbl.rows[i].v[f] =
                        (IF Parses(same[1]) THEN to_numeric(same[1].estimate)
                         ELSE Num(0))

\* C6: a mapped (GEOID, variable) whose estimate does not parse is a cell of
\* its friendly-name column with value 0: the column exists and the row of
\* the GEOID holds 0 in it, also when no estimate of the variable parses.
C6_UnparseableIsZero ==
    lastop = "transform" =>
        \A k \in 1..Len(long) :
            (/\ HasMapping(long[k].variable)
             /\ \A m \in 1..Len(RowsFor(long[k].GEOID, variable_mapping(long[k].variable))) :
                    ~Parses(RowsFor(long[k].GEOID, variable_mapping(long[k].variable))[m]))
            => /\ variable_mapping(long[k].variable) \in tbl.cols
               /\ \E i \in 1..Len(tbl.rows) : tbl.rows[i].GEOID = long[k].GEOID
               /\ \A i \in 1..Len(tbl.rows) :
                      tbl.rows[i].GEOID = long[k].GEOID
                      => tbl.rows[i].v[variable_mapping(long[k].variable)] = Num(0)

\* C7: the value columns of the output are exactly the friendly names of
\* the codes (with or without the trailing E) that occur in the input and
\* have a mapping entry; a table without a mapped row gives an empty table.
C7_ColumnsAreMappedNames ==
    lastop = "transform" =>
        /\ ValueCols(tbl) =
              {variable_mapping(long[k].variable) :
                  k \in {m \in 1..Len(long) : HasMapping(long[m].variable)}}
        /\ (mapped_data(long) = <<>> => IsEmpty(tbl))

(***************************************************************************)
(* Empty tables                                                            *)
(***************************************************************************)
\* C8: an empty table given to transform_to_wide_format, to
\* calculate_derived_indicators or to develop_isolation_risk_model gives an
\* empty table back and no exception.
C8_EmptyInEmptyOut ==
    /\ (lastop = "transform" /\ long = <<>>) => (err = "none" /\ IsEmpty(tbl))
    /\ (lastop \in {"derive", "risk"} /\ IsEmpty(prev)) => (err = "none" /\ IsEmpty(tbl))

\* an empty table went through the calculator and then through the scorer
C8_Witness ==
    /\ lastop = "risk"
    /\ nderive > 0
    /\ IsEmpty(prev)
    /\ prev.cols # {}
    /\ IsEmpty(tbl)
    /\ err = "none"

\* the reshaper returned for the empty long table
C8_WitnessTransform ==
    /\ lastop = "transform"
    /\ long = <<>>
    /\ err = "none"
    /\ IsEmpty(tbl)

(***************************************************************************)
(* Properties of calculate_derived_indicators.  After Derive, prev is the  *)
(* table it was given and tbl the table it returned.                       *)
(***************************************************************************)
\* the assignments of the function, each with the block it stands in
Assignments ==
    UNION { { [block |-> DerivedBlocks[b], step |-> DerivedBlocks[b].steps[s]] :
              s \in 1..Len(DerivedBlocks[b].steps) } :
            b \in 1..Len(DerivedBlocks) }

\* the assignments that compute a percentage, and those that do not
Percentages == {a \in Assignments : a.step.kind = "pct"}
GroupSums == {a \in Assignments : a.step.kind # "pct"}

\* the input columns column c is computed from: the columns a group sum
\* adds up, c itself when it is a column of the input
SourcesOf(c) ==
    IF \E a \in GroupSums : a.step.out = c
    THEN Reads((CHOOSE a \in GroupSums : a.step.out = c).step)
    ELSE {c}

\* every input column the value of an assignment is computed from
Required(step) == UNION {SourcesOf(c) : c \in Reads(step)}

\* the cell of column c that the assignments read in row i: a group sum of
\* the input cells, or the input cell
ReadCell(i, c) ==
    IF \E a \in GroupSums : a.step.out = c
    THEN StepOperand((CHOOSE a \in GroupSums : a.step.out = c).step, prev.rows[i].v)
    ELSE prev.rows[i].v[c]

\* the numerator and the denominator of a percentage in row i
Numerator(step, i) ==
    CASE step.numop = "col" -> ReadCell(i, step.num[1])
      [] step.numop = "add" -> CellAdd(ReadCell(i, step.num[1]), ReadCell(i, step.num[2]))
      [] step.numop = "sum" -> SumSkipNa([j \in 1..Len(step.num) |-> ReadCell(i, step.num[j])])

Denominator(step, i) == ReadCell(i, step.den)

\* 0 <= c <= 100
InPercentRange(c) == IsNum(c) /\ c.n >= 0 /\ c.n <= 100 * c.d

\* 0 <= a <= b for a positive b
IsPartOf(a, b) ==
    /\ IsNum(a)
    /\ a.n >= 0
    /\ IsInf(b) \/ a.n * b.d <= b.n * a.d

NoCellNonFinite(df) ==
    \A i \in 1..Len(df.rows) : \A c \in DOMAIN df.rows[i].v :
        ~IsNaN(df.rows[i].v[c]) /\ ~IsInf(df.rows[i].v[c])

\* the percentage columns the last application added
AddedPercentages == {a \in Percentages : a.step.out \in tbl.cols}

\* C9 as claimed: every percentage added lies in [0, 100] in every row whose
\* denominator is > 0, is exactly 0 in every row whose denominator is <= 0
\* or whose numerator or denominator is missing, and no cell of the output
\* is NaN or infinite.
C9_PercentInRange ==
    (lastop = "derive" /\ err = "none") =>
        /\ \A a \in AddedPercentages : \A i \in 1..Len(tbl.rows) :
              /\ CellGtZero(Denominator(a.step, i))
                    => InPercentRange(tbl.rows[i].v[a.step.out])
              /\ (\/ ~CellGtZero(Denominator(a.step, i))
                  \/ IsNaN(Numerator(a.step, i)))
                    => tbl.rows[i].v[a.step.out] = Num(0)
        /\ NoCellNonFinite(tbl)

\* C9 amended: every percentage added lies in [0, 100] in every row whose
\* denominator is > 0 and whose numerator lies between 0 and the
\* denominator, is exactly 0 in every row whose denominator is <= 0 or whose
\* numerator or denominator is missing, and no cell of the output is NaN or
\* infinite.
C9_PartOfTotalInRange ==
    (lastop = "derive" /\ err = "none") =>
        /\ \A a \in AddedPercentages : \A i \in 1..Len(tbl.rows) :
              /\ (/\ CellGtZero(Denominator(a.step, i))
                  /\ IsPartOf(Numerator(a.step, i), Denominator(a.step, i)))
                    => InPercentRange(tbl.rows[i].v[a.step.out])
              /\ (\/ ~CellGtZero(Denominator(a.step, i))
                  \/ IsNaN(Numerator(a.step, i)))
                    => tbl.rows[i].v[a.step.out] = Num(0)
        /\ NoCellNonFinite(tbl)

\* a row with a part of a positive total got a percentage strictly between
\* 0 and 100, and a row with a total of 0 got the percentage 0
C9_Witness ==
    /\ lastop = "derive"
    /\ err = "none"
    /\ "Percent_White" \in tbl.cols
    /\ \E i \in 1..Len(tbl.rows) :
          /\ CellGtZero(prev.rows[i].v["Total_Population"])
          /\ IsPartOf(prev.rows[i].v["White_Alone"], prev.rows[i].v["Total_Population"])
          /\ tbl.rows[i].v["Percent_White"].n > 0
          /\ tbl.rows[i].v["Percent_White"].n < 100 * tbl.rows[i].v["Percent_White"].d

\* a row with a total of 0 and a positive part got the percentage 0
C9_WitnessZero ==
    /\ lastop = "derive"
    /\ err = "none"
    /\ "Percent_White" \in tbl.cols
    /\ \E i \in 1..Len(tbl.rows) :
          /\ prev.rows[i].v["Total_Population"] = Num(0)
          /\ CellGtZero(prev.rows[i].v["White_Alone"])
          /\ tbl.rows[i].v["Percent_White"] = Num(0)

\* C10 as claimed: the function never raises because a column is missing,
\* and adds a derived column exactly when every source column required for
\* it is present; without Total_Occupied_Units neither tenure percentage is
\* in the output.
C10_ExactlyWhenSourcesPresent ==
    lastop = "derive" =>
        /\ err = "none"
        /\ \A a \in Assignments :
              a.step.out \in tbl.cols <=> Required(a.step) \subseteq prev.cols
        /\ "Total_Occupied_Units" \notin prev.cols
              => /\ "Percent_Owner_Occupied" \notin tbl.cols
                 /\ "Percent_Renter_Occupied" \notin tbl.cols

\* C10 amended: the function never raises because a column is missing, adds
\* a derived column only when every source column required for it is
\* present, and exactly when every column named by the test that guards its
\* assignment is in the table; without Total_Occupied_Units neither tenure
\* percentage is in the output.
C10_ExactlyWhenGuardHolds ==
    lastop = "derive" =>
        /\ err = "none"
        /\ \A a \in Assignments :
              /\ a.step.out \in tbl.cols => Required(a.step) \subseteq prev.cols
              /\ a.step.out \in tbl.cols
                    <=> (a.block.guard \cup a.step.need) \subseteq tbl.cols
        /\ "Total_Occupied_Units" \notin prev.cols
              => /\ "Percent_Owner_Occupied" \notin tbl.cols
                 /\ "Percent_Renter_Occupied" \notin tbl.cols

\* a table with rows and without Total_Occupied_Units came back without the
\* tenure percentages and with the other percentages
C10_Witness ==
    /\ lastop = "derive"
    /\ err = "none"
    /\ prev.rows # <<>>
    /\ "Total_Occupied_Units" \notin prev.cols
    /\ {"Owner_Occupied", "Renter_Occupied"} \subseteq prev.cols
    /\ "Percent_Owner_Occupied" \notin tbl.cols
    /\ "Percent_Renter_Occupied" \notin tbl.cols
    /\ "Percent_Occupied" \in tbl.cols

(***************************************************************************)
(* Re-running the calculator on its own output                             *)
(***************************************************************************)
\* C11: calculate_derived_indicators is idempotent: applied to its own
\* output it does not raise and returns a table identical to that output,
\* also for tables whose source columns hold missing or infinite values.
C11_Idempotent ==
    (lastop = "derive" /\ nderive >= 2) =>
        /\ err = "none"
        /\ tbl = prev

(***************************************************************************)
(* Claims about the risk scoring, checked under SpecTables                 *)
(***************************************************************************)
\* the factor groups of the scorer that ran last
GroupsOfScorer == IF lastop = "risk" THEN FactorGroups ELSE ExampleFactorGroups

\* every row of the table holds the same cell in column f (a one-row table
\* included)
ConstantColumn(df, f) ==
    /\ df.rows # <<>>
    /\ \A i, j \in 1..Len(df.rows) : df.rows[i].v[f] = df.rows[j].v[f]

\* C12: risk scoring: for every indicator column whose values are constant
\* over all rows, the standardized column <factor>_std is 0 in every row,
\* never NaN, and each row's category score and composite index are
\* defined.  The scorer of the example keeps no <factor>_std column; what
\* its standardized values were shows in the category score.
C12_ConstantColumnScoresZero ==
    (lastop \in {"risk", "example"} /\ err = "none") =>
        \A g \in 1..Len(GroupsOfScorer) :
            \A f \in Range(GroupsOfScorer[g].factors) \cap prev.cols :
                ConstantColumn(prev, f) =>
                    \A i \in 1..Len(tbl.rows) :
                        /\ lastop = "risk" =>
                              /\ StdName(f) \in tbl.cols
                              /\ tbl.rows[i].v[StdName(f)] = Num(0)
                        /\ GroupsOfScorer[g].name \in tbl.cols
                        /\ IsNum(tbl.rows[i].v[GroupsOfScorer[g].name])
                        /\ IsNum(tbl.rows[i].v["Social_Isolation_Risk_Index"])

\* the composite index and the category of row i of the scored table
IndexOf(i) == tbl.rows[i].v["Social_Isolation_Risk_Index"]
CategoryOf(i) == tbl.rows[i].v["Risk_Category"]

\* x <= p/q, x > p/q and x < p/q for a cell x that is not NaN, q > 0
AtMost(x, p, q) == IF IsInf(x) THEN x.n < 0 ELSE q * x.n <= p * x.d
Above(x, p, q) == ~AtMost(x, p, q)
Below(x, p, q) == IF IsInf(x) THEN x.n < 0 ELSE q * x.n < p * x.d

\* the analyzer added the index to a table with rows
RiskScored ==
    /\ lastop = "risk"
    /\ err = "none"
    /\ "Social_Isolation_Risk_Index" \in tbl.cols
    /\ "Risk_Category" \in tbl.cols

\* C13: every row with a defined Social_Isolation_Risk_Index gets exactly
\* one Risk_Category, decided by the fixed cut-points only: Low Risk when
\* the index is below -0.5, High Risk when it is above 0.5, Moderate Risk
\* when it is between them (the cut-points included).
C13_CutPointsModerate ==
    RiskScored =>
        \A i \in 1..Len(tbl.rows) :
            ~IsNaN(IndexOf(i)) =>
                CategoryOf(i) = (IF Below(IndexOf(i), -1, 2) THEN Label(1)
                                 ELSE IF Above(IndexOf(i), 1, 2) THEN Label(3)
                                 ELSE Label(2))

\* C13 amended: a row whose index is at or below -0.5 is Low Risk, above
\* -0.5 and at most 0.5 Moderate Risk, above 0.5 High Risk; an index of NaN
\* or -inf gets no category; the category never decreases when the index
\* grows.
C13_RightClosedBins ==
    RiskScored =>
        /\ \A i \in 1..Len(tbl.rows) :
              CategoryOf(i) =
                  (IF IsNaN(IndexOf(i)) \/ IndexOf(i) = NInf THEN NaN
                   ELSE IF AtMost(IndexOf(i), -1, 2) THEN Label(1)
                   ELSE IF AtMost(IndexOf(i), 1, 2) THEN Label(2)
                   ELSE Label(3))
        /\ \A i, j \in 1..Len(tbl.rows) :
              (CategoryOf(i) \in {Label(1), Label(2), Label(3)}
                 /\ CategoryOf(j) \in {Label(1), Label(2), Label(3)}
                 /\ IsNum(IndexOf(i)) /\ IsNum(IndexOf(j))
                 /\ IndexOf(i).n * IndexOf(j).d <= IndexOf(j).n * IndexOf(i).d)
              => CategoryOf(i).n <= CategoryOf(j).n

\* three rows came back with an index of exactly -0.5, of 0 and of exactly
\* 0.5: Low Risk, Moderate Risk and Moderate Risk
C13_Witness ==
    /\ RiskScored
    /\ Len(tbl.rows) = 3
    /\ IndexOf(1) = Rat(-1, 2) /\ CategoryOf(1) = Label(1)
    /\ IndexOf(2) = Num(0) /\ CategoryOf(2) = Label(2)
    /\ IndexOf(3) = Rat(1, 2) /\ CategoryOf(3) = Label(2)

\* three rows with the indices -1, 0 and 1 came back Low, Moderate and High
C13_WitnessAll ==
    /\ RiskScored
    /\ Len(tbl.rows) = 3
    /\ IndexOf(1) = Num(-1) /\ CategoryOf(1) = Label(1)
    /\ IndexOf(2) = Num(0) /\ CategoryOf(2) = Label(2)
    /\ IndexOf(3) = Num(1) /\ CategoryOf(3) = Label(3)

\* the mean of the cells row i of the scored table holds in the columns cols
MeanOfRow(i, cols) == Mean([j \in 1..Len(cols) |-> tbl.rows[i].v[cols[j]]])

\* the listed indicators of a group that the input table has, in list order
PresentFactors(group) == SelectSeq(group.factors, LAMBDA f : f \in prev.cols)

\* the category columns of the scored table, in list order
ExistingCategories == SelectSeq(risk_components, LAMBDA c : c \in tbl.cols)

\* C14: the analyzer's category score is the row-wise mean of the
\* standardized columns of exactly the listed indicators the table has; a
\* category with no listed indicator present gets no column; the index is
\* the row-wise mean of the category columns that exist; when no category
\* exists neither Social_Isolation_Risk_Index nor Risk_Category is added.
C14_MeansOfPresent ==
    (lastop = "risk" /\ err = "none" /\ ~IsEmpty(prev)) =>
        /\ \A g \in 1..Len(FactorGroups) :
              /\ \A f \in Range(FactorGroups[g].factors) :
                    StdName(f) \in tbl.cols <=> f \in prev.cols
              /\ IF PresentFactors(FactorGroups[g]) = <<>>
                 THEN /\ FactorGroups[g].name \in tbl.cols
                            <=> FactorGroups[g].name \in prev.cols
                      /\ FactorGroups[g].name \in prev.cols
                            => ColumnCells(tbl, FactorGroups[g].name)
                                  = ColumnCells(prev, FactorGroups[g].name)
                 ELSE /\ FactorGroups[g].name \in tbl.cols
                      /\ \A i \in 1..Len(tbl.rows) :
                            tbl.rows[i].v[FactorGroups[g].name]
                               = MeanOfRow(i, StdNames(PresentFactors(FactorGroups[g])))
        /\ IF ExistingCategories = <<>>
           THEN /\ "Social_Isolation_Risk_Index" \notin tbl.cols
                /\ "Risk_Category" \notin tbl.cols
           ELSE /\ {"Social_Isolation_Risk_Index", "Risk_Category"} \subseteq tbl.cols
                /\ \A i \in 1..Len(tbl.rows) :
                      IndexOf(i) = MeanOfRow(i, ExistingCategories)

\* two housing indicators that vary and no indicator of the two other
\* categories: Housing_Risk is the mean of the two z-scores and not 0, the
\* other categories have no column, the index equals Housing_Risk
C14_Witness ==
    /\ RiskScored
    /\ {"Old_Housing_Rate", "Mobile_Home_Rate"} \subseteq prev.cols
    /\ Len(tbl.rows) = 2
    /\ IsNum(tbl.rows[1].v["Old_Housing_Rate_std"])
    /\ tbl.rows[1].v["Old_Housing_Rate_std"].n # 0
    /\ tbl.rows[1].v["Mobile_Home_Rate_std"] = tbl.rows[1].v["Old_Housing_Rate_std"]
    /\ tbl.rows[1].v["Housing_Risk"] = tbl.rows[1].v["Old_Housing_Rate_std"]
    /\ "Demographic_Risk" \notin tbl.cols
    /\ "Economic_Risk" \notin tbl.cols
    /\ IndexOf(1) = tbl.rows[1].v["Housing_Risk"]

\* a table with rows and none of the listed indicators came back without
\* index and category
C14_WitnessNone ==
    /\ lastop = "risk"
    /\ err = "none"
    /\ stage = "scored"
    /\ prev.rows # <<>>
    /\ prev.cols = IdCols \cup {"Housing_Risk"} \/ prev.cols \cap RiskFamilyCols = {}
    /\ "Social_Isolation_Risk_Index" \notin tbl.cols

(***************************************************************************)
(* Claims about the framework, checked under SpecFramework                 *)
(***************************************************************************)
PhaseOrder == <<"collect", "spatial", "analysis", "report", "persist">>

\* the phases started and finished so far, in order
PhaseEvents == SelectSeq(trail, LAMBDA e : e.ev # "summary")

\* event i of a run that executes the phases in order, one after the other
OrderedEvent(i) ==
    [ev |-> IF i % 2 = 1 THEN "start" ELSE "end", ph |-> PhaseOrder[(i + 1) \div 2]]

\* the call of run_comprehensive_analysis is over
RunEnded == phase \in {"returned", "raised"}

\* C15: run_comprehensive_analysis executes the phases Collect, Spatial
\* join, Social-isolation analysis, Report generation, Persist in this
\* order, each exactly once, none started before the previous one finished,
\* and builds the results summary only after Persist.
C15_PhasesInOrder ==
    /\ Len(PhaseEvents) <= 2 * Len(PhaseOrder)
    /\ \A i \in 1..Len(PhaseEvents) : PhaseEvents[i] = OrderedEvent(i)
    /\ RunEnded => Len(PhaseEvents) = 2 * Len(PhaseOrder)
    /\ \A i \in 1..Len(trail) :
          trail[i].ev = "summary"
             => \E j \in 1..(i - 1) : trail[j] = [ev |-> "end", ph |-> "persist"]

\* the data sources of Collect the configuration enables
Enabled(s) == s \in DOMAIN config["data_sources"] /\ config["data_sources"][s]

\* the source has something to collect: the crime analysis works on the
\* cleaned crime dataset of the municipal collection of the same run
Collectable(s) ==
    s = "crime_analysis" =>
        /\ "municipal_data" \in DOMAIN returned
        /\ "municipal_data" \notin raised
        /\ \E i \in 1..Len(returned["municipal_data"].parts) :
              returned["municipal_data"].parts[i].name = "crime"

\* the configuration has every key of the data_sources group
AllSourcesConfigured == DOMAIN config["data_sources"] = DOMAIN default_config["data_sources"]

\* C16: whatever subset of the enabled sources has a collector that raises
\* during Collect, every other enabled source is still collected, the run
\* passes through the later phases and returns a summary; every enabled
\* source has an entry in collected_data after Collect, a failed one an
\* empty container, and a failed one is listed in data_gaps.
C16_FailuresIsolated ==
    (AllSourcesConfigured /\ phase \notin {"off", "constructed"}) =>
        /\ phase # "raised"
        /\ \A i \in 1..Len(CollectSources) :
              Enabled(CollectSources[i]) =>
                 /\ EntryOf(CollectSources[i]) \in DOMAIN collected_data
                 /\ CollectSources[i] \in raised
                       => IsGap(collected_data[EntryOf(CollectSources[i])])
                 /\ (CollectSources[i] \notin raised /\ Collectable(CollectSources[i]))
                       => /\ CollectSources[i] \in DOMAIN returned
                          /\ collected_data[EntryOf(CollectSources[i])]
                                = returned[CollectSources[i]]
                 /\ (CollectSources[i] \in raised
                        /\ phase \in {"reported", "saved", "returned"})
                       => EntryOf(CollectSources[i]) \in data_gaps

\* C17: run_comprehensive_analysis never propagates an exception to its
\* caller, whatever the loaded configuration and whatever collaborator
\* fails: it returns a results summary.
C17_NeverPropagates == phase # "raised"

\* C18: with a parseable user configuration, every default setting the
\* user configuration does not itself set keeps its default value, also
\* inside a group of which the user configuration sets other keys.
C18_DefaultsKept ==
    (phase # "off" /\ user_config.kind = "parsed") =>
        \A g \in DOMAIN default_config :
            \A k \in DOMAIN default_config[g] :
                (g \notin DOMAIN user_config.groups \/ k \notin DOMAIN user_config.groups[g])
                    => /\ k \in DOMAIN config[g]
                       /\ config[g][k] = default_config[g][k]

\* the rows a source or an analysis produced: the rows of a table, the rows
\* of the tables of a dict, one record for a report
RowsOf(data) ==
    CASE data.kind = "frame" -> data.rows
      [] data.kind = "dict" -> TotalRows(data.parts)
      [] OTHER -> 1

\* C19: the returned summary has, for every entry of collected_data and of
\* analysis_results, one entry whose record_count is the number of rows
\* and whose collected / completed flag is true exactly when there is at
\* least one row; a dict of empty tables is reported as not collected.
C19_SummaryCounts ==
    phase = "returned" =>
        /\ DOMAIN summary.data_collection_summary = DOMAIN collected_data
        /\ DOMAIN summary.analysis_summary = DOMAIN analysis_results
        /\ \A source \in DOMAIN collected_data :
              /\ summary.data_collection_summary[source].record_count
                    = RowsOf(collected_data[source])
              /\ summary.data_collection_summary[source].collected
                    <=> RowsOf(collected_data[source]) >= 1
        /\ \A analysis \in DOMAIN analysis_results :
              /\ summary.analysis_summary[analysis].record_count
                    = RowsOf(analysis_results[analysis])
              /\ summary.analysis_summary[analysis].completed
                    <=> RowsOf(analysis_results[analysis]) >= 1


(***************************************************************************)
(* Claims about the spatial joins, checked under SpecJoins                 *)
(***************************************************************************)
\* the key of the first polygon the geometry is within, null when none
FirstKey(geometry, right) ==
    IF MatchesFrom(geometry, right, 1) = <<>> THEN NaN
    ELSE Head(MatchesFrom(geometry, right, 1))

\* the output rows of input point i
RowsOfPoint(i) == SelectSeq(joined_datasets, LAMBDA r : r.point = i)

\* two polygons of the frame contain the same input point
Overlapping(right) ==
    \E i \in 1..Len(gdf) : Len(MatchesFrom(gdf[i], right, 1)) > 1

\* C20: each input point appears exactly once in the joined output, with
\* the key of the first tract and of the first ZIP code that contain it, a
\* null key when none contains it; the output has as many rows as there
\* are input points, also when polygons overlap.
C20_OnePointOneRow ==
    join_pc \in {"returned", "summarised"} =>
        /\ Len(joined_datasets) = Len(gdf)
        /\ \A i \in 1..Len(gdf) :
              /\ Len(RowsOfPoint(i)) = 1
              /\ RowsOfPoint(i)[1].tract_id = FirstKey(gdf[i], census_tracts)
              /\ RowsOfPoint(i)[1].zip_code = FirstKey(gdf[i], zip_codes)

RECURSIVE SumCounts(_)
\* the sum of the counts of a summary table
SumCounts(rows) ==
    IF rows = <<>> THEN 0 ELSE Head(rows).count + SumCounts(Tail(rows))

\* the unmatched count the summary tables report, 0 when they report none
ReportedUnmatched(tables) ==
    IF "unmatched" \in DOMAIN tables THEN tables["unmatched"] ELSE 0

\* the joined entities whose tract key is null
NullTractRows == SelectSeq(joined_datasets, LAMBDA r : IsNaN(r.tract_id))

\* C21: the entities with a null tract key are excluded from the per-tract
\* counts and reported as an unmatched count: the per-tract counts plus the
\* reported unmatched count add up to the number of joined entities.
C21_CountsPlusUnmatched ==
    join_pc = "summarised" =>
        SumCounts(summaries.tract_totals) + ReportedUnmatched(summaries)
            = Len(joined_datasets)

(***************************************************************************)
(* Claims about the council district mapper, checked under SpecMapper      *)
(***************************************************************************)
\* real boundaries of both kinds were downloaded
BothAvailable ==
    /\ download_council_districts(council_sources).rows > 0
    /\ download_census_tracts(tract_download).rows > 0

WellFormedGeoid(geoid) ==
    /\ Len(geoid) = 11
    /\ \A i \in 1..Len(geoid) : geoid[i] \in Digits
    /\ SubSeq(geoid, 1, 5) = <<"2", "2", "0", "3", "3">>

\* C23: the ACS GEOID and the GEOID rebuilt from the tract name of a health
\* record are 11 characters, state + county + zero-padded tract code, and
\* for a tract number with at most two decimals the rebuilt GEOID is the
\* ACS GEOID of the tract.
C23_GeoidsAgree ==
    /\ acs_done => WellFormedGeoid(acs_geoid)
    /\ places_done => WellFormedGeoid(places_geoid)
    /\ (acs_done /\ places_done) => places_geoid = acs_geoid

(***************************************************************************)
(* SocialIsolationAnalyzer: calculate_housing_quality_indicators and       *)
(* calculate_social_isolation_indicators                                   *)
(*                                                                         *)
(* A test `'<text>' in col` over df.columns is the set of the column names *)
(* holding the text among the names the ACS mapping, its derived           *)
(* indicators and the analyzer create.                                     *)
(***************************************************************************)
\* a / b * 100 on float cells: x / 0 is an infinity, 0 / 0 is NaN
CellDivTimes100(a, b) ==
    IF IsNaN(a) \/ IsNaN(b) THEN NaN
    ELSE IF IsInf(b) THEN (IF IsInf(a) THEN NaN ELSE Num(0))
    ELSE IF b.n = 0
         THEN (IF a.n = 0 THEN NaN ELSE IF a.n > 0 THEN PInf ELSE NInf)
    ELSE IF IsInf(a) THEN (IF (a.n > 0) = (b.n > 0) THEN PInf ELSE NInf)
    ELSE IF b.n > 0 THEN Rat(100 * a.n * b.d, a.d * b.n)
    ELSE Rat(-(100 * a.n * b.d), a.d * (-b.n))

\* df.get(col, 1), row i
Get(df, i, col) == IF col \in df.cols THEN df.rows[i].v[col] ELSE Num(1)

RECURSIVE SumOfColumns(_, _)
\* df[cols].sum(axis=1), one row
SumOfColumns(v, cs) ==
    IF cs = {} THEN Num(0)
    ELSE LET c == CHOOSE x \in cs : TRUE
         IN  IF IsNaN(v[c]) THEN SumOfColumns(v, cs \ {c})
             ELSE CellAdd(v[c], SumOfColumns(v, cs \ {c}))

\* [col for col in df.columns if 'Cost_Burden' in col]
cost_burden_cols(df) ==
    df.cols \cap {"S2503_Cost_Burden_30_Plus_Under_20K",
                  "S2503_Cost_Burden_30_Plus_20K_35K",
                  "S2503_Cost_Burden_30_Plus_35K_50K",
                  "S2503_Cost_Burden_30_Plus_50K_75K",
                  "S2503_Cost_Burden_30_Plus_75K_Plus",
                  "High_Housing_Cost_Burden_Rate"}

\* the columns naming one of the decades '1939', '1940_1949', '1950_1959'
old_decade_cols(df) ==
    df.cols \cap {"Built_1939_Earlier", "Built_1940_1949", "Built_1950_1959"}

\* 'More_Than_1_Person_Per_Room' in col: no column carries the text
overcrowding_cols(df) == df.cols \cap {}

\* 'Limited_English' in col or 'Linguistically_Isolated' in col: no column
limited_english_cols(df) == df.cols \cap {}

\* 'Disability' in col
disability_cols(df) == df.cols \cap {"Disability_Rate"}

\* df[out] = df[cs].sum(axis=1) / df.get(den, 1) * 100 when cs is not empty
SumRate(df, out, cs, den, fill) ==
    IF cs = {} THEN df
    ELSE AddColumn(df, out,
            [i \in 1..Len(df.rows) |->
                IF fill
                THEN FillNa(CellDivTimes100(SumOfColumns(df.rows[i].v, cs),
                                            Get(df, i, den)))
                ELSE CellDivTimes100(SumOfColumns(df.rows[i].v, cs),
                                     Get(df, i, den))])

\* df[out] = df[num] / df[den] * 100 when the columns in need are there
ColumnRate(df, out, num, den, need, fill) ==
    IF ~(need \subseteq df.cols) THEN df
    ELSE AddColumn(df, out,
            [i \in 1..Len(df.rows) |->
                IF fill
                THEN FillNa(CellDivTimes100(df.rows[i].v[num], Get(df, i, den)))
                ELSE CellDivTimes100(df.rows[i].v[num], Get(df, i, den))])

\* df['Housing_Vacancy_Rate'] = ((total - occupied) / total * 100).fillna(0)
VacancyRate(df) ==
    IF ~({"Total_Housing_Units", "Occupied_Units"} \subseteq df.cols) THEN df
    ELSE AddColumn(df, "Housing_Vacancy_Rate",
            [i \in 1..Len(df.rows) |->
                FillNa(CellDivTimes100(
                    CellSub(df.rows[i].v["Total_Housing_Units"],
                            df.rows[i].v["Occupied_Units"]),
                    df.rows[i].v["Total_Housing_Units"]))])

CostBurdenRate(df) ==
    SumRate(df, "High_Housing_Cost_Burden_Rate", cost_burden_cols(df),
            "Total_Households", FALSE)

OldHousingRate(df) ==
    SumRate(df, "Old_Housing_Rate", old_decade_cols(df), "Total_Housing_Units", FALSE)

MobileHomeRate(df) ==
    ColumnRate(df, "Mobile_Home_Rate", "Mobile_Home", "Total_Housing_Units",
               {"Mobile_Home"}, FALSE)

RenterRate(df) ==
    ColumnRate(df, "Renter_Rate", "Renter_Occupied", "Occupied_Units",
               {"Renter_Occupied", "Occupied_Units"}, FALSE)

OvercrowdingRate(df) ==
    SumRate(df, "Overcrowding_Rate", overcrowding_cols(df), "Occupied_Units", FALSE)

\* the function, its assignments in order
calculate_housing_quality_indicators(acs) ==
    OvercrowdingRate(RenterRate(MobileHomeRate(OldHousingRate(
        CostBurdenRate(VacancyRate(acs))))))

ElderlyLivingAloneRate(df) ==
    ColumnRate(df, "Elderly_Living_Alone_Rate", "Living_Alone_65_Plus",
               "Population_65_Plus",
               {"Living_Alone_65_Plus", "Population_65_Plus"}, TRUE)

SinglePersonHouseholdRate(df) ==
    ColumnRate(df, "Single_Person_Household_Rate", "Single_Person_Households",
               "Total_Households",
               {"Single_Person_Households", "Total_Households"}, TRUE)

LanguageIsolationRate(df) ==
    SumRate(df, "Language_Isolation_Rate", limited_english_cols(df),
            "Total_Population", TRUE)

DisabilityRate(df) ==
    SumRate(df, "Disability_Rate", disability_cols(df), "Total_Population", TRUE)

NoVehicleRate(df) ==
    ColumnRate(df, "No_Vehicle_Rate", "No_Vehicle_Available", "Total_Households",
               {"No_Vehicle_Available", "Total_Households"}, TRUE)

DigitalIsolationRate(df) ==
    ColumnRate(df, "Digital_Isolation_Rate", "No_Internet_Access",
               "Total_Households",
               {"No_Internet_Access", "Total_Households"}, TRUE)

\* the function, its assignments in order
calculate_social_isolation_indicators(acs) ==
    DigitalIsolationRate(NoVehicleRate(DisabilityRate(LanguageIsolationRate(
        SinglePersonHouseholdRate(ElderlyLivingAloneRate(acs))))))

(***************************************************************************)
(* SocialIsolationAnalyzer.run_comprehensive_analysis                      *)
(*                                                                         *)
(* The eight numbered steps of the function are taken one at a time.  The  *)
(* ACS collector and the CDC PLACES requests belong to the environment;    *)
(* the output directory can be written.  A table other than the ACS one is *)
(* a Frame: what the function reads of it is whether it is empty.          *)
(***************************************************************************)
\* tracts and counts of the collected ACS tables
MaxAnalyzerTracts == 2
MaxCount == 1

\* Total_Housing_Units, Occupied_Units, Renter_Occupied, Built_1939_Earlier,
\* S2503_Cost_Burden_30_Plus_Under_20K, Total_Households
AnalyzerCodes ==
    <<"B25001_001", "B25002_002", "B25003_003", "B25034_011", "S2503_C01_028",
      "B11001_001">>

\* the variables a collection delivers, by position in AnalyzerCodes
CodeGroups == {{1, 2}, {1, 4}, {2, 3}, {4, 5}, {5, 6}}

\* the long rows of tract i: one row for each delivered variable
TractLong(i, g, count) ==
    SelectSeq([j \in 1..Len(AnalyzerCodes) |->
                  [GEOID    |-> Tracts[i].GEOID,
                   NAME     |-> Tracts[i].api,
                   variable |-> [code |-> AnalyzerCodes[j], sfx |-> "E"],
                   estimate |-> StrOf(IF j \in g THEN count[j] ELSE 0)]],
              LAMBDA r : r.variable.code \in {AnalyzerCodes[j] : j \in g})

RECURSIVE AcsLong(_, _, _)
\* pd.concat of the collected datasets: the rows of tracts 1..n
AcsLong(n, g, counts) ==
    IF n = 0 THEN <<>>
    ELSE AcsLong(n - 1, g, counts) \o TractLong(n, g, counts[n])

\* step 1, inside the try: [df, stored], stored when results['acs_base'] is set
collect_base_acs(o) ==
    IF o.kind # "datasets" \/ o.long = <<>> THEN [df |-> EmptyFrame, stored |-> FALSE]
    ELSE IF transform_to_wide_format(o.long).err # "none"
            \/ IsEmpty(transform_to_wide_format(o.long).df)
         THEN [df |-> EmptyFrame, stored |-> FALSE]
    ELSE IF calculate_derived_indicators(transform_to_wide_format(o.long).df).err
                # "none"
         THEN [df |-> EmptyFrame, stored |-> FALSE]
    ELSE [df     |-> calculate_derived_indicators(
                         transform_to_wide_format(o.long).df).df,
          stored |-> TRUE]

\* the health collection: a failed request is caught where it is made
collect_health_outcomes_data(o) == IF o = "rows" THEN Frame(1) ELSE Frame(0)

\* the one-row placeholder whatever the crime data
crime_placeholder(crime_data) == Frame(1)

\* an empty frame for empty crime data, else the one-row placeholder
analyze_crime_safety_factors(crime_data) ==
    IF crime_data.rows = 0 THEN Frame(0) ELSE Frame(1)

\* both environmental collectors return an empty frame
collect_environmental_data == Frame(0)

\* the one-row placeholder crosswalk
create_council_district_crosswalk == Frame(1)

\* 1. Collect base ACS housing and demographic data
CollectBaseAcs ==
    /\ an_pc = "called"
    /\ acs_data' = collect_base_acs(acs_outcome).df
    /\ results' = IF collect_base_acs(acs_outcome).stored
                  THEN Put(results, "acs_base", collect_base_acs(acs_outcome).df)
                  ELSE results
    /\ an_pc' = "acs"
    /\ UNCHANGED <<acs_outcome, health_outcome, acs_enhanced, acs_with_isolation,
                   csv_written>>
    /\ UNCHANGED <<fetchVars, tableVars, frameVars, joinVars, mapVars, geoVars>>

\* 2. Calculate housing quality indicators
HousingQuality ==
    /\ an_pc = "acs"
    /\ IF ~IsEmpty(acs_data)
       THEN /\ acs_enhanced' = calculate_housing_quality_indicators(acs_data)
            /\ results' = Put(results, "housing_quality",
                              calculate_housing_quality_indicators(acs_data))
       ELSE /\ acs_enhanced' = EmptyFrame
            /\ UNCHANGED results
    /\ an_pc' = "housing"
    /\ UNCHANGED <<acs_outcome, health_outcome, acs_data, acs_with_isolation,
                   csv_written>>
    /\ UNCHANGED <<fetchVars, tableVars, frameVars, joinVars, mapVars, geoVars>>

\* 3. Calculate social isolation indicators
SocialIsolation ==
    /\ an_pc = "housing"
    /\ IF ~IsEmpty(acs_enhanced)
       THEN /\ acs_with_isolation' = calculate_social_isolation_indicators(acs_enhanced)
            /\ results' = Put(results, "social_isolation",
                              calculate_social_isolation_indicators(acs_enhanced))
       ELSE /\ acs_with_isolation' = EmptyFrame
            /\ UNCHANGED results
    /\ an_pc' = "isolation"
    /\ UNCHANGED <<acs_outcome, health_outcome, acs_data, acs_enhanced, csv_written>>
    /\ UNCHANGED <<fetchVars, tableVars, frameVars, joinVars, mapVars, geoVars>>

\* 4. Collect health outcomes data
HealthOutcomes ==
    /\ an_pc = "isolation"
    /\ results' = IF collect_health_outcomes_data(health_outcome).rows > 0
                  THEN Put(results, "health_outcomes",
                           collect_health_outcomes_data(health_outcome))
                  ELSE results
    /\ an_pc' = "health"
    /\ UNCHANGED <<acs_outcome, health_outcome, acs_data, acs_enhanced,
                   acs_with_isolation, csv_written>>
    /\ UNCHANGED <<fetchVars, tableVars, frameVars, joinVars, mapVars, geoVars>>

\* 5. Collect and analyze crime data: the analysis is given pd.DataFrame()
CrimeSafety ==
    /\ an_pc = "health"
    /\ results' = Put(results, "crime_safety", analyze_crime_safety_factors(Frame(0)))
    /\ an_pc' = "crime"
    /\ UNCHANGED <<acs_outcome, health_outcome, acs_data, acs_enhanced,
                   acs_with_isolation, csv_written>>
    /\ UNCHANGED <<fetchVars, tableVars, frameVars, joinVars, mapVars, geoVars>>

\* 6. Collect environmental data
Environmental ==
    /\ an_pc = "crime"
    /\ results' = IF collect_environmental_data.rows > 0
                  THEN Put(results, "environmental", collect_environmental_data)
                  ELSE results
    /\ an_pc' = "environment"
    /\ UNCHANGED <<acs_outcome, health_outcome, acs_data, acs_enhanced,
                   acs_with_isolation, csv_written>>
    /\ UNCHANGED <<fetchVars, tableVars, frameVars, joinVars, mapVars, geoVars>>

\* 7. Create council district crosswalk
CouncilCrosswalk ==
    /\ an_pc = "environment"
    /\ results' = Put(results, "council_districts", create_council_district_crosswalk)
    /\ an_pc' = "council"
    /\ UNCHANGED <<acs_outcome, health_outcome, acs_data, acs_enhanced,
                   acs_with_isolation, csv_written>>
    /\ UNCHANGED <<fetchVars, tableVars, frameVars, joinVars, mapVars, geoVars>>

\* 8. Develop comprehensive risk model, save it, return results
FinalAnalysis ==
    /\ an_pc = "council"
    /\ IF ~IsEmpty(acs_with_isolation)
       THEN /\ results' = Put(results, "final_analysis",
                              develop_isolation_risk_model(acs_with_isolation).df)
            /\ csv_written' = TRUE
       ELSE UNCHANGED <<results, csv_written>>
    /\ an_pc' = "returned"
    /\ UNCHANGED <<acs_outcome, health_outcome, acs_data, acs_enhanced,
                   acs_with_isolation>>
    /\ UNCHANGED <<fetchVars, tableVars, frameVars, joinVars, mapVars, geoVars>>

\* the tables of n tracts holding the variables of g
LongTablesOf(n, g) ==
    { AcsLong(n, g, counts) : counts \in [1..n -> [g -> 0..MaxCount]] }

\* what the ACS collector can deliver
AcsOutcomes ==
    {[kind |-> "no_connection", long |-> <<>>], [kind |-> "raises", long |-> <<>>],
     [kind |-> "datasets", long |-> <<>>]}
    \cup { [kind |-> "datasets", long |-> l] :
             l \in UNION { LongTablesOf(n, g) :
                             n \in 1..MaxAnalyzerTracts, g \in CodeGroups } }

InitAnalyzer ==
    /\ FetchOff
    /\ TablesOff
    /\ FrameOff
    /\ JoinsOff
    /\ MapperOff
    /\ GeoidOff
    /\ an_pc = "called"
    /\ acs_outcome \in AcsOutcomes
    /\ health_outcome \in {"raises", "empty", "rows"}
    /\ acs_data = EmptyFrame
    /\ acs_enhanced = EmptyFrame
    /\ acs_with_isolation = EmptyFrame
    /\ results = <<>>
    /\ csv_written = FALSE

NextAnalyzer ==
    \/ CollectBaseAcs
    \/ HousingQuality
    \/ SocialIsolation
    \/ HealthOutcomes
    \/ CrimeSafety
    \/ Environmental
    \/ CouncilCrosswalk
    \/ FinalAnalysis

SpecAnalyzer == InitAnalyzer /\ [][NextAnalyzer]_vars

(***************************************************************************)
(* C24                                                                     *)
(***************************************************************************)
\* the rate columns of the two indicator functions, each with the column
\* it is divided by
RateColumns ==
    { <<"Housing_Vacancy_Rate", "Total_Housing_Units">>,
      <<"High_Housing_Cost_Burden_Rate", "Total_Households">>,
      <<"Old_Housing_Rate", "Total_Housing_Units">>,
      <<"Mobile_Home_Rate", "Total_Housing_Units">>,
      <<"Renter_Rate", "Occupied_Units">>,
      <<"Overcrowding_Rate", "Occupied_Units">>,
      <<"Elderly_Living_Alone_Rate", "Population_65_Plus">>,
      <<"Single_Person_Household_Rate", "Total_Households">>,
      <<"Language_Isolation_Rate", "Total_Population">>,
      <<"Disability_Rate", "Total_Population">>,
      <<"No_Vehicle_Rate", "Total_Households">>,
      <<"Digital_Isolation_Rate", "Total_Households">> }

\* the rate columns of a table are finite, and 0 where the denominator is 0
RatesFiniteIn(table) ==
    \A i \in 1..Len(table.rows) : \A p \in RateColumns :
        p[1] \in table.cols =>
            /\ IsNum(table.rows[i].v[p[1]])
            /\ (p[2] \in table.cols /\ table.rows[i].v[p[2]] = Num(0))
                   => table.rows[i].v[p[1]] = Num(0)

\* C24: every rate column that calculate_housing_quality_indicators and
\* calculate_social_isolation_indicators add is finite in every row, and is
\* 0 in every row whose denominator is 0, whatever the numerator.
C24_RatesFinite == RatesFiniteIn(acs_enhanced) /\ RatesFiniteIn(acs_with_isolation)

\* the same for the one column that is filled, in rows with nothing to divide
C24_VacancyOfNoUnits ==
    \A i \in 1..Len(acs_enhanced.rows) :
        ("Housing_Vacancy_Rate" \in acs_enhanced.cols
         /\ acs_enhanced.rows[i].v["Total_Housing_Units"] = Num(0)
         /\ acs_enhanced.rows[i].v["Occupied_Units"] = Num(0))
            => acs_enhanced.rows[i].v["Housing_Vacancy_Rate"] = Num(0)

\* a tract without occupied units: Renter_Rate is 0 / 0 and is not filled
C24_EmptyTractRenterRate ==
    \E i \in 1..Len(acs_enhanced.rows) :
        /\ "Renter_Rate" \in acs_enhanced.cols
        /\ acs_enhanced.rows[i].v["Occupied_Units"] = Num(0)
        /\ acs_enhanced.rows[i].v["Renter_Occupied"] = Num(0)
        /\ acs_enhanced.rows[i].v["Renter_Rate"] = NaN

(***************************************************************************)
(* C25                                                                     *)
(***************************************************************************)
\* collect_all_datasets at its last endpoint, the endpoints before it having
\* delivered no row
InitPaging ==
    /\ TablesOff
    /\ FrameOff
    /\ JoinsOff
    /\ MapperOff
    /\ GeoidOff
    /\ AnalyzerOff
    /\ max_rows \in 0..MaxRowsBound
    /\ batch_limit \in 1..MaxBatchBound
    /\ ds = Len(api_endpoints)
    /\ datasets = [name \in {api_endpoints[i] : i \in 1..Len(api_endpoints)} |->
                      IF name = api_endpoints[Len(api_endpoints)] THEN NoTable
                      ELSE <<>>]
    /\ pc = "idle"
    /\ offset = 0
    /\ total_rows = 0
    /\ more_data = TRUE
    /\ broke = FALSE
    /\ all_data = <<>>
    /\ result = <<>>
    /\ log = <<>>
    /\ honoured = TRUE
    /\ broken = {}

\* the call for that endpoint, its loop taken again and again until it is left
SpecPaging == InitPaging /\ [][Next]_vars /\ WF_vars(Next)

\* ceil(max_rows / batch_limit)
MostRequests == (max_rows + batch_limit - 1) \div batch_limit

\* the requests of the current call are few, at distinct offsets, each at
\* the number of rows accumulated before it
ContiguousPages ==
    /\ Len(log) <= MostRequests
    /\ \A i, j \in 1..Len(log) : i # j => log[i].offset # log[j].offset
    /\ \A i \in 1..Len(log) : log[i].offset = RowsBefore(log, i)

\* C25: when no page holds more rows than were requested, collect_api_data
\* issues at most ceil(max_rows / batch_limit) requests, never requests the
\* same offset twice, and the offset of every request equals the number of
\* rows accumulated so far; every call of it comes to an end.
C25_ContiguousAndTerminates ==
    /\ [](honoured => ContiguousPages)
    /\ (pc = "paging") ~> (pc \in {"returned", "raised"})

\* a call that made its largest number of requests, two at least, every
\* page within its limit, and has returned
C25_Witness ==
    /\ pc = "returned"
    /\ honoured
    /\ Len(log) = MostRequests
    /\ Len(log) >= 2
    /\ \A i \in 1..Len(log) : log[i].rows > 0

(***************************************************************************)
(* C26, C27                                                                *)
(***************************************************************************)
\* the option is switched on in the configuration
Option(o) == o \in DOMAIN config["analysis_options"] /\ config["analysis_options"][o]

\* the Collect phase has ended
Collected == phase \in {"collected", "joined", "analyzed", "reported", "saved", "returned"}

\* the analysis phase has ended
Analyzed == phase \in {"analyzed", "reported", "saved", "returned"}

\* the ACS collector was called and returned tables, one of them not empty
AcsTablesReturned ==
    /\ Enabled("census_acs")
    /\ "census_acs" \in DOMAIN returned
    /\ TotalRows(returned["census_acs"].parts) > 0

\* C26: when the Census source is enabled and the ACS collector returns
\* non-empty tables, the Collect phase stores a non-empty ACS table in
\* collected_data['acs_data'], and the analysis phase then stores
\* housing_indicators and isolation_indicators (and, when enabled,
\* risk_scores and composite_analysis) for it in analysis_results.
C26_AcsStoredAndAnalysed ==
    (Collected /\ AcsTablesReturned) =>
        /\ AcsData.rows > 0
        /\ Analyzed =>
              /\ {"housing_indicators", "isolation_indicators"}
                     \subseteq DOMAIN analysis_results
              /\ Option("calculate_risk_scores")
                     => "risk_scores" \in DOMAIN analysis_results
              /\ Option("create_composite_indices")
                     => "composite_analysis" \in DOMAIN analysis_results

\* the municipal collection of the run returned a cleaned crime dataset
CrimeDatasetCleaned ==
    /\ "municipal_data" \in DOMAIN returned
    /\ \E i \in 1..Len(returned["municipal_data"].parts) :
          /\ returned["municipal_data"].parts[i].name = "crime"
          /\ returned["municipal_data"].parts[i].rows > 0

\* C27: when crime analysis is enabled and the municipal collection of the
\* same run produced a cleaned crime dataset, the crime analyzer is run on
\* that dataset and collected_data['crime_analysis'] holds its result.
C27_CrimeAnalyzerRun ==
    (Collected /\ Enabled("crime_analysis") /\ Enabled("municipal_data")
     /\ CrimeDatasetCleaned) =>
        /\ "crime_analysis" \in DOMAIN returned \cup raised
        /\ "crime_analysis" \in DOMAIN returned
              => collected_data["crime_analysis"] = returned["crime_analysis"]

(***************************************************************************)
(* C28                                                                     *)
(***************************************************************************)
\* the table without the columns cs
DropColumns(df, cs) ==
    [cols |-> df.cols \ cs,
     rows |-> [i \in 1..Len(df.rows) |->
                 [df.rows[i] EXCEPT !.v = [c \in (DOMAIN df.rows[i].v) \ cs |->
                                              df.rows[i].v[c]]]]]

\* the indicators the analyzer computes and no category lists
UnlistedIndicators == {"High_Housing_Cost_Burden_Rate", "Digital_Isolation_Rate"}

\* the scores of the table: its category columns and its index
ScoresOf(df) ==
    [i \in 1..Len(df.rows) |->
        [c \in df.cols \cap {"Housing_Risk", "Demographic_Risk", "Economic_Risk",
                             "Social_Isolation_Risk_Index", "Risk_Category"} |->
            df.rows[i].v[c]]]

\* C28: in every run the Economic_Risk category is never produced, none of
\* Poverty_Rate, Unemployment_Rate and No_Internet_Rate being a column of
\* the analysed table; the computed High_Housing_Cost_Burden_Rate and
\* Digital_Isolation_Rate enter no category (the scores are those of the
\* table without them), and Social_Isolation_Risk_Index is the mean of the
\* categories present among Housing_Risk and Demographic_Risk.
C28_NoEconomicRisk ==
    "final_analysis" \in DOMAIN results =>
        /\ "Economic_Risk" \notin results["final_analysis"].cols
        /\ \A j \in 1..Len(economic_risk_factors) :
              /\ economic_risk_factors[j] \notin results["final_analysis"].cols
              /\ economic_risk_factors[j] \notin FriendlyNames
        /\ ScoresOf(results["final_analysis"])
              = ScoresOf(develop_isolation_risk_model(
                             DropColumns(acs_with_isolation, UnlistedIndicators)).df)
        /\ "Social_Isolation_Risk_Index" \in results["final_analysis"].cols =>
              \A i \in 1..Len(results["final_analysis"].rows) :
                 results["final_analysis"].rows[i].v["Social_Isolation_Risk_Index"]
                    = Mean(<< IF "Housing_Risk" \in results["final_analysis"].cols
                              THEN results["final_analysis"].rows[i].v["Housing_Risk"]
                              ELSE NaN,
                              IF "Demographic_Risk" \in results["final_analysis"].cols
                              THEN results["final_analysis"].rows[i].v["Demographic_Risk"]
                              ELSE NaN >>)

\* a run whose analysed table holds High_Housing_Cost_Burden_Rate beside a
\* housing factor, and whose index tells two tracts apart
C28_Witness ==
    /\ an_pc = "returned"
    /\ "final_analysis" \in DOMAIN results
    /\ "High_Housing_Cost_Burden_Rate" \in results["final_analysis"].cols
    /\ "Social_Isolation_Risk_Index" \in results["final_analysis"].cols
    /\ \E i \in 1..Len(results["final_analysis"].rows) :
          CellGtZero(results["final_analysis"].rows[i].v["Social_Isolation_Risk_Index"])

(***************************************************************************)
(* C29                                                                     *)
(***************************************************************************)
\* key is in the returned dict
Has(key) == key \in DOMAIN results

\* C29: in the returned results, for every outcome of the collection
\* steps, final_analysis is present only if social_isolation is,
\* social_isolation only if housing_quality is, and housing_quality only
\* if acs_base is; council_districts is always present, crime_safety is
\* always present and empty, and social_isolation_analysis.csv is written
\* exactly when final_analysis is present; this also when the health
\* collection fails.
C29_ResultKeys ==
    an_pc = "returned" =>
        /\ Has("final_analysis") => Has("social_isolation")
        /\ Has("social_isolation") => Has("housing_quality")
        /\ Has("housing_quality") => Has("acs_base")
        /\ Has("council_districts")
        /\ Has("crime_safety") /\ results["crime_safety"].rows = 0
        /\ csv_written <=> Has("final_analysis")

\* a returned run with the whole chain of tables although the health
\* collection failed
C29_Witness ==
    /\ an_pc = "returned"
    /\ health_outcome = "raises"
    /\ Has("final_analysis")
    /\ Has("acs_base")
    /\ ~Has("health_outcomes")
    /\ csv_written

\* a returned run without any ACS table
C29_WitnessNoAcs ==
    /\ an_pc = "returned"
    /\ acs_outcome.kind = "raises"
    /\ DOMAIN results = {"crime_safety", "council_districts"}
    /\ ~csv_written

(***************************************************************************)
(* C30                                                                     *)
(***************************************************************************)
\* one of the two scorers added the index to the table
EitherScored ==
    /\ stage = "scored"
    /\ lastop \in {"risk", "example"}
    /\ "Social_Isolation_Risk_Index" \in tbl.cols

\* the category of the intervals (-inf, -0.5], (-0.5, 0.5], (0.5, +inf)
RightClosedBin(x) ==
    IF AtMost(x, -1, 2) THEN Label(1)
    ELSE IF AtMost(x, 1, 2) THEN Label(2)
    ELSE Label(3)

\* C30: the risk category boundaries are right-closed in both risk
\* scorers: an index of exactly -0.5 is Low Risk, of exactly 0.5 Moderate
\* Risk, and develop_isolation_risk_model and the example's
\* calculate_risk_scores assign the same category to the same index value.
C30_SameBinsBothScorers ==
    EitherScored =>
        \A i \in 1..Len(tbl.rows) :
            IsNum(IndexOf(i)) =>
                /\ "Risk_Category" \in tbl.cols
                /\ CategoryOf(i) = RightClosedBin(IndexOf(i))

\* the example scorer came back with an index of exactly -0.5 in a Low
\* Risk row and of exactly 0.5 in a Moderate Risk row
C30_Witness ==
    /\ EitherScored
    /\ lastop = "example"
    /\ \E i \in 1..Len(tbl.rows) :
          IndexOf(i) = Rat(-1, 2) /\ CategoryOf(i) = Label(1)
    /\ \E i \in 1..Len(tbl.rows) :
          IndexOf(i) = Rat(1, 2) /\ CategoryOf(i) = Label(2)

\* the analyzer came back from the same table with the same rows
C30_WitnessAnalyzer ==
    /\ EitherScored
    /\ lastop = "risk"
    /\ "Mobile_Home_Rate" \in tbl.cols
    /\ \E i \in 1..Len(tbl.rows) :
          IndexOf(i) = Rat(-1, 2) /\ CategoryOf(i) = Label(1)
    /\ \E i \in 1..Len(tbl.rows) :
          IndexOf(i) = Rat(1, 2) /\ CategoryOf(i) = Label(2)

=============================================================================
